---------------------------- MODULE Spec2Model ----------------------------
(***************************************************************************)
(* A model of the virtual-memory simulation framework.                     *)
(*                                                                         *)
(* Part A: the hole-list physical page allocator, PhysMemManager           *)
(* (pagetables-base-2024/os/physmemmanager.cc), driven by a caller that    *)
(* keeps the allocations it holds and gives each back whole, exactly once, *)
(* as the unit tests do.                                                   *)
(*                                                                         *)
(* Part D: the two translation look-aside buffers: the statistics-keeping  *)
(* TLB of mmu.cc behind the MMU facade, with its file-static entries, and  *)
(* the TLB of tlb.h, whose calls take the address-space id as a parameter. *)
(***************************************************************************)
EXTENDS Integers, Sequences, FiniteSets, Bags, TLC

(***************************************************************************)
(* Bounds of the model.                                                    *)
(***************************************************************************)
\* Largest number of pages of the managers the general specification builds.
MaxPages == 4
\* Largest number of allocations the caller holds at one time.
MaxLive == 3
\* Largest number of zero-page allocations the caller is given in a run.
MaxZeroRequests == 1

(***************************************************************************)
(* Program constants.  Addresses are counted in units of 1 KiB, so that    *)
(* the 16 GiB base fits the model checker's integers; every address the    *)
(* manager handles is a multiple of 1 KiB.                                 *)
(***************************************************************************)
physMemBase == 16 * 1024 * 1024
\* The page size of the unit tests (4096 bytes) and of AArch64 (16384 bytes).
testPageSize == 4096 \div 1024
aarch64PageSize == 16384 \div 1024
PageSizes == {testPageSize, aarch64PageSize}
\* The test first_fit_behavior: 30 pages, allocated in six blocks of 5, of
\* which the first, third and fifth are released.
ScenarioPages == 30
ScenarioBlock == 5
ScenarioBlocks == 6
FreedBlocks == {1, 3, 5}
\* The test hole_merging (scenario S6): 20 pages, three blocks of 5, of which
\* the first and the third are released, then a request for 9 pages.
S6Pages == 20
S6Block == 5
S6Blocks == 3
S6FreedBlocks == {1, 3}
S6Large == 9

\* Bounds of the translation look-aside buffers.
\* Physical pages an add can name are 1..MaxPPage.
MaxPPage == 2
\* Address-space ids are 0..MaxASID.
MaxASID == 2
\* A caller of the TLB object drives no statistics counter past MaxCount
\* (clear() starts the count again).
MaxCount == 1
\* A caller of the MMU has at most MaxAccesses addresses translated and
\* flushes at most MaxAccesses times.
MaxAccesses == 2

\* The test tlb_lru_replacement: a TLB of two entries and three pages.
TlbCapacity == 2
VPages == {1, 3, 5}
PPages == 1..MaxPPage
ASIDs == 0..MaxASID
\* "no slot" of a search through the slots, "no page" of a failed walk
NoSlot == 0 - 1
NoPage == 0
\* Scenario S4 runs on a TLB of four entries, as the other TLB tests do.
S4Capacity == 4

\* the number of calls the caller of the two TLB objects makes
MaxTwoCalls == 3

\* Page tables.  Level 0 is indexed by one bit as in aarch64.h; the eleven
\* index bits of each of the levels 1 to 3 are scaled down to LevelBits.
L0_BITS == 1
LevelBits == 1
L1_BITS == LevelBits
L2_BITS == LevelBits
L3_BITS == LevelBits
L0_ENTRIES == 2 ^ L0_BITS
L1_ENTRIES == 2 ^ L1_BITS
L2_ENTRIES == 2 ^ L2_BITS
L3_ENTRIES == 2 ^ L3_BITS
pageTableAlign == aarch64PageSize

\* sizeof(SimpleTableEntry): bit fields of 64 bits in all
entrySize == 8

\* the tables the kernel's memory has room for, and the processes
MaxTables == 8
PIDs == {1, 2}

VARIABLES
    pageSize,           \* PhysMemManager::pageSize
    nPages,             \* PhysMemManager::nPages
    holes,              \* PhysMemManager::holes, a list of Hole
    nAllocatedPages,    \* PhysMemManager::nAllocatedPages
    maxAllocatedPages,  \* PhysMemManager::maxAllocatedPages
    live,               \* the caller's allocations not yet released (bag)
    lastOp,             \* the call that ran last
    lastCount,          \* the count asked of allocatePages (0 after a release)
    lastRet,            \* what it returned (TRUE after a release)
    lastAddr,           \* the address it returned (0: none)
    peakAllocated,      \* history: largest nAllocatedPages so far
    pc,                 \* position of the scripted caller (0: free caller)
    nZero,              \* zero-page allocations the caller was given so far
    addrs               \* the scripted caller's vector of addresses

pmmVars == <<pageSize, nPages, holes, nAllocatedPages, maxAllocatedPages>>
callerVars == <<live, lastOp, lastCount, lastRet, lastAddr, peakAllocated,
                pc, addrs, nZero>>

VARIABLES
    tlbStatics,         \* the file-static state of mmu.cc: tlbEntries,
                        \* lruOrder, lruMap (its keys), tlbInitialized and
                        \* the static currentASID
    tlb,                \* the members of the TLB object: nEntries, the five
                        \* counters and the member currentASID
    mmu,                \* the member currentASID of the MMU object
    tlbOp,              \* the TLB call that ran last
    tlbArg,             \* its virtual page (0: none)
    tlbHit,             \* whether its lookup hit
    tlbOut,             \* the physical page it returned or was given (0: none)
    addOrder,           \* history: the valid slots, most recently filled first
    useOrder,           \* history: the valid slots, most recently used first
    addedSinceFlush,    \* history: the pages added since the last flush
    addsSinceFlush,     \* history: adds since the last flush, up to nEntries
    insertedUnder,      \* history: for each valid slot, the address-space id
                        \* the MMU had been given when the slot was filled
    calls               \* history: the calls since construction or clear()

tlbVars == <<tlbStatics, tlb, mmu>>
tlbCallerVars == <<tlbOp, tlbArg, tlbHit, tlbOut>>
tlbHistoryVars == <<addOrder, useOrder, addedSinceFlush, addsSinceFlush,
                    insertedUnder, calls>>
tlbAllVars == <<tlbVars, tlbCallerVars, tlbHistoryVars>>

VARIABLES
    asidTlb,            \* the TLB of tlb.h: numEntries, the list entries
                        \* (front first; each entry with its list node) and
                        \* the map cache from virtual address to list node
    atlbOp,             \* the call of that TLB that ran last
    atlbArg,            \* its virtual address (0: none)
    atlbAsid,           \* its asid argument (0: none)
    atlbHit,            \* whether its lookup hit
    atlbOut,            \* the physical address it returned or was given
    addedAs,            \* history: for each list node, the arguments of
                        \* the addEntry that made it
    effect,             \* history: how many entries the last call took
                        \* off the list, and whether an addEntry found its
                        \* address entered under another asid
    script              \* the scripted caller of scenario S4: its position
                        \* and the addresses and ids it uses

atlbVars == <<asidTlb>>
atlbCallerVars == <<atlbOp, atlbArg, atlbAsid, atlbHit, atlbOut, addedAs,
                    effect, script>>
atlbAllVars == <<atlbVars, atlbCallerVars>>

VARIABLES
    tlbB,               \* the members of a second TLB object of the same
                        \* translation unit, and whether it is constructed
    tlbObj,             \* the TLB object the last call was made on (0: none)
    addedVia,           \* history: for each TLB object, the pages given to
                        \* its add() since its construction
    nTwoCalls           \* the number of calls made on the two TLB objects

twoVars == <<tlbB, tlbObj, addedVia, nTwoCalls>>

VARIABLES
    ptMem,              \* the memory that holds page tables: for the address
                        \* of each table, its entries from index 0
    root,               \* MMU::root, the page-table pointer (0: null)
    ptOp                \* the page-table call that ran last: its name, its
                        \* process, its virtual page, isWrite, what it
                        \* returned and the physical page it gave or was
                        \* given

ptVars == <<ptMem, root, ptOp>>

VARIABLES
    pageTables,         \* AArch64MMUDriver::pageTables: for each process
                        \* that has one, the address of its table of level 0
    bytesAllocated,     \* AArch64MMUDriver::bytesAllocated
    installed           \* history: for each process and each virtual page
                        \* given to setMapping since the process's
                        \* allocatePageTable, the address of the handle
                        \* given last

drvVars == <<pageTables, bytesAllocated, installed>>

VARIABLES
    acc                 \* MMU::processMemAccess: where the call stands, the
                        \* address and type of its access, whether the
                        \* translation came from the TLB, whether the
                        \* call has run the page-fault handler, and the
                        \* number of calls made so far

accVars == <<acc>>

ptAllVars == <<ptVars, drvVars, accVars>>

VARIABLES
    handles,            \* the kernel's PhysPage objects: addr and driverData
                        \* (<<>>: null, else the table and index of an
                        \* entry), and history: the process and page of the
                        \* setMapping that stamped it
    released,           \* history: the calls of kernel->releaseMemory the
                        \* last releasePageTable made, in order
    owned,              \* history: for each process, the tables allocated
                        \* for it, each with the size asked of the kernel
    nRoots,             \* history: the calls of allocatePageTable
    nNodes,             \* history: the calls of allocatePageTableLevel
    nTreeCalls          \* the calls the kernel and the MMU have made

treeVars == <<handles, released, owned, nRoots, nNodes, nTreeCalls>>

VARIABLES
    freeList,           \* PhysMemManager::holes of the sorted free list
    held,               \* the caller's allocations not yet released
    freeOp              \* the call of that manager that ran last

sortedVars == <<freeList, held, freeOp>>

VARIABLES
    dec                 \* an address and the indices taken from it

decVars == <<dec>>

lateVars == <<treeVars, sortedVars, decVars>>

extVars == <<twoVars, ptAllVars, lateVars>>

otherVars == <<tlbAllVars, atlbAllVars, extVars>>

vars == <<pmmVars, callerVars, otherVars>>

TLBEntry(vp, pp, as) ==
    [vPage |-> vp, pPage |-> pp, asid |-> as, valid |-> TRUE]

TLBEntryDefault == [vPage |-> 0, pPage |-> 0, asid |-> 0, valid |-> FALSE]

NoCalls ==
    [lookups |-> 0, hits |-> 0, evictions |-> 0, flushes |-> 0,
     flushEvictions |-> 0]

\* The state when the program starts and a TLB of n entries and an MMU have
\* been constructed: the statics are empty, the counters and ids are zero.
TLBConstruct(n) ==
    /\ tlbStatics = [tlbEntries |-> <<>>, lruOrder |-> <<>>, lruMap |-> {},
                     tlbInitialized |-> FALSE, currentASID |-> 0]
    /\ tlb = [nEntries |-> n, nLookups |-> 0, nHits |-> 0, nEvictions |-> 0,
              nFlush |-> 0, nFlushEvictions |-> 0, currentASID |-> 0]
    /\ mmu = [currentASID |-> 0]
    /\ tlbOp = "construct" /\ tlbArg = 0 /\ tlbHit = FALSE /\ tlbOut = 0
    /\ addOrder = <<>> /\ useOrder = <<>>
    /\ addedSinceFlush = {} /\ addsSinceFlush = 0
    /\ insertedUnder = <<>>
    /\ calls = NoCalls

NoScript == [pc |-> 0]

NoEffect == [dropped |-> 0, old |-> FALSE, tail |-> NoPage]

\* TLB::TLB(numEntries) of tlb.h: an empty list and an empty map.
ATLBConstruct(n) ==
    /\ asidTlb = [numEntries |-> n, entries |-> <<>>, cache |-> <<>>]
    /\ atlbOp = "construct" /\ atlbArg = 0 /\ atlbAsid = 0
    /\ atlbHit = FALSE /\ atlbOut = 0
    /\ addedAs = <<>>
    /\ effect = NoEffect

\* The specifications of one component leave the others as constructed.
TLBIdle == TLBConstruct(TlbCapacity)

\* the members TLB::TLB(nEntries, mmu) initialises
TLBMembers(n) ==
    [nEntries |-> n, nLookups |-> 0, nHits |-> 0, nEvictions |-> 0,
     nFlush |-> 0, nFlushEvictions |-> 0, currentASID |-> 0]

\* no second TLB object yet
TwoIdle ==
    /\ tlbB = [constructed |-> FALSE, members |-> TLBMembers(0)]
    /\ tlbObj = 0
    /\ addedVia = [o \in 1..2 |-> {}]
    /\ nTwoCalls = 0

NoPtOp ==
    [op |-> "none", pid |-> 0, vPage |-> 0, isWrite |-> FALSE,
     ret |-> "none", pPage |-> NoPage, handle |-> 0, setting |-> FALSE,
     existed |-> FALSE,
     old |-> [valid |-> 0, type |-> 0, physicalPageNum |-> 0,
              referenced |-> 0, dirty |-> 0]]

\* no page table anywhere, MMU::root as MMU::MMU leaves it
PtIdle ==
    /\ ptMem = <<>>
    /\ root = 0
    /\ ptOp = NoPtOp

\* AArch64MMUDriver::AArch64MMUDriver()
DrvIdle ==
    /\ pageTables = <<>>
    /\ bytesAllocated = 0
    /\ installed = <<>>

NoAccess ==
    [pc |-> "idle", addr |-> 0, type |-> "none", hit |-> FALSE,
     faulted |-> FALSE, n |-> 0]

\* no memory access yet
AccIdle == acc = NoAccess

\* the handles the kernel holds, each of its own physical page
Handles == 1..2

NoHandle(h) ==
    [addr |-> (IF h = 1 THEN 1 ELSE MaxPPage) * aarch64PageSize,
     driverData |-> <<>>, pid |-> 0, vPage |-> 0]

\* no handle stamped, nothing allocated or released
TreeIdle ==
    /\ handles = [h \in Handles |-> NoHandle(h)]
    /\ released = <<>>
    /\ owned = <<>>
    /\ nRoots = 0
    /\ nNodes = 0
    /\ nTreeCalls = 0

NoFreeOp == [op |-> "none", address |-> 0, size |-> 0, ret |-> "none"]

\* no sorted free list constructed
SortedIdle ==
    /\ freeList = <<>>
    /\ held = {}
    /\ freeOp = NoFreeOp

NoDec == [vAddr |-> 0, done |-> FALSE]

DecIdle == dec = NoDec

LateIdle == TreeIdle /\ SortedIdle /\ DecIdle

ExtIdle == TwoIdle /\ PtIdle /\ DrvIdle /\ AccIdle /\ LateIdle

ATLBIdle == ATLBConstruct(TlbCapacity) /\ script = NoScript

OthersIdle == TLBIdle /\ ATLBIdle /\ ExtIdle

Hole(startPage, count) == [startPage |-> startPage, count |-> count]

Max(a, b) == IF a >= b THEN a ELSE b

RECURSIVE SumCounts(_)
SumCounts(hs) ==
    IF hs = <<>> THEN 0 ELSE Head(hs).count + SumCounts(Tail(hs))

RemoveAt(s, i) == SubSeq(s, 1, i - 1) \o SubSeq(s, i + 1, Len(s))

\* Variant of findFit: the last hole that fits instead of the first.
findFit_lastFit(hs, count) ==
    LET fits == {i \in 1..Len(hs) : hs[i].count >= count}
    IN  IF fits = {} THEN 0
        ELSE CHOOSE i \in fits : \A j \in fits : i >= j

(***************************************************************************)
(* findFit: the index of the first hole with it->count >= count, 0 for     *)
(* holes.end().                                                            *)
(***************************************************************************)
findFit(hs, count) ==
    LET fits == {i \in 1..Len(hs) : hs[i].count >= count}
    IN  IF fits = {} THEN 0
        ELSE CHOOSE i \in fits : \A j \in fits : i <= j

\* Variant of splitHole: the remainder takes the place of the hole it is
\* cut from instead of going to the tail of the list.
splitHole_inPlace(hs, it, startPage, count) ==
    LET originalHole == hs[it]
        endPage == startPage + count
        originalEndPage == originalHole.startPage + originalHole.count
    IN  IF endPage < originalEndPage
        THEN [hs EXCEPT ![it] = Hole(endPage, originalEndPage - endPage)]
        ELSE RemoveAt(hs, it)

\* Variant of splitHole: the remainder starts at startPage instead of
\* endPage, so it keeps the first page of the allocated range.
splitHole_keepsStart(hs, it, startPage, count) ==
    LET originalHole == hs[it]
        erased == RemoveAt(hs, it)
        endPage == startPage + count
        originalEndPage == originalHole.startPage + originalHole.count
    IN  IF endPage < originalEndPage
        THEN Append(erased, Hole(startPage, originalEndPage - endPage))
        ELSE erased

(***************************************************************************)
(* splitHole: the hole is erased; what is left of it before and after the  *)
(* allocated range is appended to the list with emplace_back.              *)
(***************************************************************************)
splitHole(hs, it, startPage, count) ==
    LET originalHole == hs[it]
        erased == RemoveAt(hs, it)
        before == IF startPage > originalHole.startPage
                  THEN Append(erased, Hole(originalHole.startPage,
                                           startPage - originalHole.startPage))
                  ELSE erased
        endPage == startPage + count
        originalEndPage == originalHole.startPage + originalHole.count
    IN  IF endPage < originalEndPage
        THEN Append(before, Hole(endPage, originalEndPage - endPage))
        ELSE before

addHole(hs, startPage, count) == Append(hs, Hole(startPage, count))

(***************************************************************************)
(* std::list::sort with the comparison a.startPage < b.startPage: a stable *)
(* sort, equal keys keep their order.                                      *)
(***************************************************************************)
RECURSIVE InsertStable(_, _)
InsertStable(sorted, h) ==
    IF sorted = <<>> THEN <<h>>
    ELSE IF h.startPage < sorted[Len(sorted)].startPage
         THEN Append(InsertStable(SubSeq(sorted, 1, Len(sorted) - 1), h),
                     sorted[Len(sorted)])
         ELSE Append(sorted, h)

RECURSIVE sortHoles(_)
sortHoles(hs) ==
    IF hs = <<>> THEN <<>>
    ELSE InsertStable(sortHoles(SubSeq(hs, 1, Len(hs) - 1)), hs[Len(hs)])

\* Variant of the merging loop: the merged hole keeps its own count and
\* loses the count of the hole it swallows.
RECURSIVE mergeLoop_dropsCount(_, _)
mergeLoop_dropsCount(hs, it) ==
    IF it > Len(hs) THEN hs
    ELSE IF it < Len(hs) /\ hs[it].startPage + hs[it].count = hs[it + 1].startPage
         THEN mergeLoop_dropsCount(RemoveAt(hs, it + 1), it)
         ELSE mergeLoop_dropsCount(hs, it + 1)

(***************************************************************************)
(* The merging loop of mergeHoles: `it` stays on a hole that swallowed its *)
(* successor and moves on otherwise.                                       *)
(***************************************************************************)
RECURSIVE mergeLoop(_, _)
mergeLoop(hs, it) ==
    IF it > Len(hs) THEN hs
    ELSE IF it < Len(hs) /\ hs[it].startPage + hs[it].count = hs[it + 1].startPage
         THEN mergeLoop([RemoveAt(hs, it + 1) EXCEPT
                            ![it].count = hs[it].count + hs[it + 1].count], it)
         ELSE mergeLoop(hs, it + 1)

\* Variant of mergeHoles: the list is merged without being sorted first.
mergeHoles_noSort(hs) == mergeLoop(hs, 1)

mergeHoles(hs) == mergeLoop(sortHoles(hs), 1)

\* Variant of the high-water mark: it follows nAllocatedPages.
newMaxAllocated_follows(maxAllocated, allocated) == allocated

\* std::max(maxAllocatedPages, nAllocatedPages) of allocatePages.
newMaxAllocated(maxAllocated, allocated) == Max(maxAllocated, allocated)

allReleased == nAllocatedPages = 0

getMaxAllocatedPages == maxAllocatedPages

(***************************************************************************)
(* Address arithmetic of allocatePages and releasePages.                   *)
(***************************************************************************)
pageAddr(startPage) == physMemBase + startPage * pageSize

addrPage(addr) == (addr - physMemBase) \div pageSize

(***************************************************************************)
(* PhysMemManager::allocatePages(count, addr).  A failing call writes      *)
(* nothing; lastAddr = 0 then records that no address was returned.        *)
(***************************************************************************)
\* Variant of the upfront check: >= instead of >, so that the last free
\* pages can never be given out.
allocateFails_offByOne(count) ==
    \/ nAllocatedPages + count >= nPages
    \/ findFit(holes, count) = 0

allocateFails(count) ==
    \/ nAllocatedPages + count > nPages
    \/ findFit(holes, count) = 0

allocatePages(count) ==
    /\ lastOp' = "allocate"
    /\ lastCount' = count
    /\ IF allocateFails(count)
       THEN /\ lastRet' = FALSE
            /\ lastAddr' = 0
            /\ UNCHANGED <<holes, nAllocatedPages, maxAllocatedPages>>
       ELSE LET it == findFit(holes, count)
                startPage == holes[it].startPage
            IN  /\ lastRet' = TRUE
                /\ lastAddr' = pageAddr(startPage)
                /\ holes' = splitHole(holes, it, startPage, count)
                /\ nAllocatedPages' = nAllocatedPages + count
                /\ maxAllocatedPages' =
                       newMaxAllocated(maxAllocatedPages, nAllocatedPages + count)
    /\ peakAllocated' = Max(peakAllocated, nAllocatedPages')
    /\ UNCHANGED <<pageSize, nPages, otherVars>>

(***************************************************************************)
(* PhysMemManager::releasePages(addr, count).                              *)
(***************************************************************************)
releasePages(addr, count) ==
    /\ lastOp' = "release"
    /\ lastCount' = 0
    /\ lastRet' = TRUE
    /\ lastAddr' = 0
    /\ holes' = mergeHoles(addHole(holes, addrPage(addr), count))
    /\ nAllocatedPages' = nAllocatedPages - count
    /\ peakAllocated' = Max(peakAllocated, nAllocatedPages')
    /\ UNCHANGED <<pageSize, nPages, maxAllocatedPages, otherVars>>

(***************************************************************************)
(* The constructor: one hole covering all of memory.                       *)
(***************************************************************************)
Construct(ps, np) ==
    /\ pageSize = ps
    /\ nPages = np
    /\ holes = <<Hole(0, np)>>
    /\ nAllocatedPages = 0
    /\ maxAllocatedPages = 0
    /\ live = EmptyBag
    /\ lastOp = "none"
    /\ lastCount = 0
    /\ lastRet = FALSE
    /\ lastAddr = 0
    /\ peakAllocated = 0
    /\ addrs = <<>>
    /\ nZero = 0

Allocation(addr, count) == [addr |-> addr, count |-> count]

(***************************************************************************)
(* The free caller (stress_test_fragmentation): it asks for any number of  *)
(* pages, keeps what it was given, and gives back any allocation it holds. *)
(***************************************************************************)
Init ==
    /\ \E np \in 1..MaxPages : Construct(testPageSize, np)
    /\ pc = 0
    /\ OthersIdle

AllocatePages ==
    /\ pc = 0
    /\ \E count \in 0..(nPages + 1) :
          /\ allocatePages(count)
          /\ IF lastRet'
             THEN /\ BagCardinality(live) < MaxLive
                  /\ count = 0 => nZero < MaxZeroRequests
                  /\ nZero' = IF count = 0 THEN nZero + 1 ELSE nZero
                  /\ live' = live (+) SetToBag({Allocation(lastAddr', count)})
             ELSE live' = live /\ nZero' = nZero
    /\ UNCHANGED <<pc, addrs>>

ReleasePages ==
    /\ pc = 0
    /\ \E a \in BagToSet(live) :
          /\ releasePages(a.addr, a.count)
          /\ live' = live (-) SetToBag({a})
    /\ UNCHANGED <<pc, addrs, nZero>>

Next == AllocatePages \/ ReleasePages

Spec == Init /\ [][Next]_vars

(***************************************************************************)
(* The scripted caller of the test first_fit_behavior (scenario S5): fill  *)
(* the memory with blocks, release every other block, then allocate twice. *)
(* The order of the releases and the sizes of the last two requests are    *)
(* left open; the test's own run asks for 3 and then 2 pages.              *)
(***************************************************************************)
InitS5 ==
    /\ \E ps \in PageSizes : Construct(ps, ScenarioPages)
    /\ pc = 1
    /\ OthersIdle

ScriptFill ==
    /\ pc = 1
    /\ allocatePages(ScenarioBlock)
    /\ addrs' = Append(addrs, Allocation(lastAddr', ScenarioBlock))
    /\ live' = live (+) SetToBag({Allocation(lastAddr', ScenarioBlock)})
    /\ pc' = IF Len(addrs') = ScenarioBlocks THEN 2 ELSE 1
    /\ UNCHANGED nZero

ScriptFree ==
    /\ pc = 2
    /\ \E i \in FreedBlocks :
          /\ BagIn(addrs[i], live)
          /\ releasePages(addrs[i].addr, addrs[i].count)
          /\ live' = live (-) SetToBag({addrs[i]})
    /\ pc' = IF \E i \in FreedBlocks : BagIn(addrs[i], live') THEN 2 ELSE 3
    /\ UNCHANGED <<addrs, nZero>>

ScriptReuse ==
    /\ pc \in {3, 4}
    /\ \E count \in 0..ScenarioBlock :
          /\ allocatePages(count)
          /\ addrs' = Append(addrs, Allocation(lastAddr', count))
          /\ live' = IF lastRet'
                     THEN live (+) SetToBag({Allocation(lastAddr', count)})
                     ELSE live
    /\ pc' = pc + 1
    /\ UNCHANGED nZero

NextS5 == ScriptFill \/ ScriptFree \/ ScriptReuse

SpecS5 == InitS5 /\ [][NextS5]_vars

(***************************************************************************)
(* The scripted caller of the test hole_merging (scenario S6): three       *)
(* blocks, the outer two released, a large request, the middle block       *)
(* released, a last request.  The test releases the large allocation       *)
(* before the middle block; the scenario as written in the specification   *)
(* does not.  Both runs are behaviours of this caller; the sizes of the    *)
(* large and of the last request are left open.                            *)
(*   pc = 11: filling, 12: releasing the outer blocks, 13: large request,  *)
(*   14: large allocation held or released, 15: middle block released,     *)
(*   16: last request done.                                                *)
(***************************************************************************)
InitS6 ==
    /\ \E ps \in PageSizes : Construct(ps, S6Pages)
    /\ pc = 11
    /\ OthersIdle

S6Fill ==
    /\ pc = 11
    /\ allocatePages(S6Block)
    /\ addrs' = Append(addrs, Allocation(lastAddr', S6Block))
    /\ live' = live (+) SetToBag({Allocation(lastAddr', S6Block)})
    /\ pc' = IF Len(addrs') = S6Blocks THEN 12 ELSE 11
    /\ UNCHANGED nZero

S6FreeOuter ==
    /\ pc = 12
    /\ \E i \in S6FreedBlocks :
          /\ BagIn(addrs[i], live)
          /\ releasePages(addrs[i].addr, addrs[i].count)
          /\ live' = live (-) SetToBag({addrs[i]})
    /\ pc' = IF \E i \in S6FreedBlocks : BagIn(addrs[i], live') THEN 12 ELSE 13
    /\ UNCHANGED <<addrs, nZero>>

S6AllocLarge ==
    /\ pc = 13
    /\ \E count \in 1..(2 * S6Block) :
          /\ allocatePages(count)
          /\ addrs' = Append(addrs, Allocation(lastAddr', count))
          /\ live' = IF lastRet'
                     THEN live (+) SetToBag({Allocation(lastAddr', count)})
                     ELSE live
    /\ pc' = 14
    /\ UNCHANGED nZero

S6FreeLarge ==
    /\ pc = 14
    /\ BagIn(addrs[S6Blocks + 1], live)
    /\ releasePages(addrs[S6Blocks + 1].addr, addrs[S6Blocks + 1].count)
    /\ live' = live (-) SetToBag({addrs[S6Blocks + 1]})
    /\ UNCHANGED <<pc, addrs, nZero>>

S6FreeMiddle ==
    /\ pc = 14
    /\ releasePages(addrs[2].addr, addrs[2].count)
    /\ live' = live (-) SetToBag({addrs[2]})
    /\ pc' = 15
    /\ UNCHANGED <<addrs, nZero>>

S6AllocLast ==
    /\ pc = 15
    /\ \E count \in 1..S6Pages :
          /\ allocatePages(count)
          /\ live' = IF lastRet'
                     THEN live (+) SetToBag({Allocation(lastAddr', count)})
                     ELSE live
    /\ pc' = 16
    /\ UNCHANGED <<addrs, nZero>>

NextS6 ==
    \/ S6Fill \/ S6FreeOuter \/ S6AllocLarge
    \/ S6FreeLarge \/ S6FreeMiddle \/ S6AllocLast

SpecS6 == InitS6 /\ [][NextS6]_vars


(***************************************************************************)
(* Properties of the hole-list allocator.                                  *)
(***************************************************************************)
\* The pages a hole list covers, and the pages of an allocation.
HolePages(h) == h.startPage..(h.startPage + h.count - 1)

FreePages(hs) == UNION {HolePages(hs[i]) : i \in 1..Len(hs)}

AllocPages(a) == addrPage(a.addr)..(addrPage(a.addr) + a.count - 1)

memorySize == nPages * pageSize

SortedHoles(hs) ==
    \A i, j \in 1..Len(hs) : i < j => hs[i].startPage <= hs[j].startPage

\* C1: after any sequence of allocatePages and releasePages calls, each
\* release giving back one prior whole allocation, nAllocatedPages plus the
\* sum of the counts of all holes equals nPages.
C1_PagesConserved == nAllocatedPages + SumCounts(holes) = nPages

C1_Witness ==
    /\ lastOp = "release"
    /\ nAllocatedPages > 0
    /\ Len(holes) >= 2

\* C2: the page ranges of the live allocations are pairwise disjoint, and
\* each returned address is page-aligned and its whole range lies inside
\* [base, base + memorySize).
C2_LiveDisjointInRange ==
    /\ \A a, b \in BagToSet(live) :
          a # b => AllocPages(a) \cap AllocPages(b) = {}
    /\ \A a \in BagToSet(live) :
          /\ CopiesIn(a, live) > 1 => a.count = 0
          /\ a.addr % pageSize = 0
          /\ a.addr >= physMemBase
          /\ a.addr < physMemBase + memorySize
          /\ a.addr + a.count * pageSize <= physMemBase + memorySize

C2_Witness ==
    /\ lastOp = "allocate" /\ lastRet /\ lastCount > 1
    /\ BagCardinality(live) >= 2
    /\ \A a \in BagToSet(live) : a.count > 0
    /\ \E i \in 1..Len(holes) : holes[i].startPage < addrPage(lastAddr)

\* C3: a successful allocatePages(count) takes the first hole of the list
\* whose count is at least the requested count, skipping no earlier hole
\* that fits, allocates from that hole's low end, and returns
\* base + startPage * pageSize of that hole.
C3_FirstFit ==
    [][(lastOp' = "allocate" /\ lastRet') =>
          \E i \in 1..Len(holes) :
             /\ holes[i].count >= lastCount'
             /\ \A j \in 1..(i - 1) : holes[j].count < lastCount'
             /\ lastAddr' = physMemBase + holes[i].startPage * pageSize
             /\ FreePages(holes') = FreePages(holes) \
                   (holes[i].startPage..(holes[i].startPage + lastCount' - 1))
      ]_vars

\* A successful allocation that left behind another hole it could have used.
C3_Witness ==
    /\ lastOp = "allocate" /\ lastRet /\ lastCount > 0
    /\ \E i \in 1..Len(holes) :
          /\ holes[i].count >= lastCount
          /\ holes[i].startPage # addrPage(lastAddr) + lastCount

\* C4 as claimed: in every reachable state the hole list is sorted by
\* ascending startPage.
C4_AlwaysSorted == SortedHoles(holes)

\* C4, amended: the hole list is sorted by ascending startPage after
\* construction and after every releasePages; allocatePages may leave it
\* unsorted.
C4_SortedAfterRelease == lastOp # "allocate" => SortedHoles(holes)

C4_Witness ==
    /\ lastOp = "release"
    /\ Len(holes) >= 2
    /\ \A i \in 1..Len(holes) : holes[i].count > 0

\* C5: in every reachable state, requests with count 0 included, the holes
\* are pairwise disjoint and no two holes are adjacent: there are no holes
\* h1, h2 with h1.startPage + h1.count = h2.startPage.
C5_NoAdjacentHoles ==
    \A i, j \in 1..Len(holes) :
       i # j =>
          /\ HolePages(holes[i]) \cap HolePages(holes[j]) = {}
          /\ holes[i].startPage + holes[i].count # holes[j].startPage

\* C6: allocatePages(count) returns false exactly when
\* nAllocatedPages + count > nPages or no single hole has count >= count,
\* and a call that returns false leaves the hole list, nAllocatedPages and
\* maxAllocatedPages unchanged.
C6_FailsExactlyWhen ==
    [][lastOp' = "allocate" =>
          /\ ~lastRet' <=>
                \/ nAllocatedPages + lastCount' > nPages
                \/ \A i \in 1..Len(holes) : holes[i].count < lastCount'
          /\ ~lastRet' =>
                UNCHANGED <<holes, nAllocatedPages, maxAllocatedPages>>
      ]_vars

\* A request that fails for fragmentation alone: enough pages are free, no
\* hole is large enough.
C6_Witness ==
    /\ lastOp = "allocate" /\ ~lastRet /\ lastCount > 0
    /\ nAllocatedPages + lastCount <= nPages
    /\ SumCounts(holes) >= lastCount
    /\ \A i \in 1..Len(holes) : holes[i].count < lastCount

\* C7: in every reachable state, allReleased() is true if and only if the
\* hole list consists of exactly one hole covering [0, nPages).
C7_AllReleasedIffOneHole == allReleased <=> holes = <<Hole(0, nPages)>>

\* C8: getMaxAllocatedPages() never decreases and always equals the
\* largest value nAllocatedPages has had since construction.
C8_MaxIsPeak ==
    /\ [](getMaxAllocatedPages = peakAllocated)
    /\ [][maxAllocatedPages' >= maxAllocatedPages]_vars

\* A release has lowered nAllocatedPages below the high-water mark.
C8_Witness ==
    /\ lastOp = "release"
    /\ getMaxAllocatedPages > nAllocatedPages
    /\ nAllocatedPages > 0

(***************************************************************************)
(* Scenario S5 (first_fit_behavior), under SpecS5.  addrs[1..6] are the    *)
(* blocks a0..a5, addrs[7] and addrs[8] the two later allocations.         *)
(***************************************************************************)
S5Run(first, second) ==
    /\ pc = 5
    /\ addrs[ScenarioBlocks + 1].count = first
    /\ addrs[ScenarioBlocks + 2].count = second

\* C9 as claimed: the remainder of a split hole stays at the original
\* hole's position in the list, so in scenario S5, after allocatePages(3)
\* returned a0, the following allocatePages(2) returns a0 + 3 * pageSize.
C9_RemainderInPlace ==
    /\ (pc = 4 /\ addrs[ScenarioBlocks + 1].count = 3) =>
          holes[1] = Hole(addrPage(addrs[1].addr) + 3, ScenarioBlock - 3)
    /\ S5Run(3, 2) =>
          /\ addrs[ScenarioBlocks + 1].addr = addrs[1].addr
          /\ addrs[ScenarioBlocks + 2].addr = addrs[1].addr + 3 * pageSize

\* C9, amended: the remainder of a split hole goes to the tail of the hole
\* list, behind the holes at a2 and a4, so in scenario S5 the allocation
\* that follows a split of the first hole returns a2, whatever the sizes
\* of the two requests (at most a block each, the first leaving a
\* remainder).
C9_RemainderAtTail ==
    \A first \in 1..(ScenarioBlock - 1) :
       /\ (pc = 4 /\ addrs[ScenarioBlocks + 1].count = first) =>
             /\ addrs[ScenarioBlocks + 1].addr = addrs[1].addr
             /\ holes = <<Hole(addrPage(addrs[3].addr), ScenarioBlock),
                          Hole(addrPage(addrs[5].addr), ScenarioBlock),
                          Hole(addrPage(addrs[1].addr) + first,
                               ScenarioBlock - first)>>
       /\ \A second \in 0..ScenarioBlock :
             S5Run(first, second) =>
                addrs[ScenarioBlocks + 2].addr = addrs[3].addr

C9_Witness == S5Run(3, 2) /\ pageSize = aarch64PageSize

\* C10: the remainder of a split hole is appended to the tail of the hole
\* list, so after releasing blocks 0, 2 and 4 of six 5-page blocks and
\* allocating 3 pages, which returns block 0's address, the next
\* allocatePages(2) returns block 2's address and not the 2-page remainder
\* of the first hole.
C10_SecondHoleReused ==
    S5Run(3, 2) =>
       /\ lastRet
       /\ addrs[ScenarioBlocks + 1].addr = addrs[1].addr
       /\ addrs[ScenarioBlocks + 2].addr = addrs[3].addr
       /\ addrs[ScenarioBlocks + 2].addr # addrs[1].addr + 3 * pageSize
       /\ \E i \in 1..Len(holes) :
             holes[i] = Hole(addrPage(addrs[1].addr) + 3, 2)

C10_Witness == S5Run(3, 2) /\ pageSize = testPageSize

(***************************************************************************)
(* Scenario S6 (hole_merging), under SpecS6.  addrs[1..3] are the blocks   *)
(* a, b, c and addrs[4] is the large allocation.                           *)
(***************************************************************************)
S6LargeHeld ==
    /\ pc \in {15, 16}
    /\ addrs[S6Blocks + 1].count = S6Large
    /\ BagIn(addrs[S6Blocks + 1], live)

S6LargeReleased ==
    /\ pc \in {15, 16}
    /\ addrs[S6Blocks + 1].count = S6Large
    /\ addrs[S6Blocks + 1].addr # 0
    /\ ~BagIn(addrs[S6Blocks + 1], live)

\* C11 as claimed: with 20 pages, after allocatePages(5) three times giving
\* a, b, c, then release(a,5), release(c,5), a successful allocatePages(9)
\* and then release(b,5), the hole list is a single hole of 20 pages and
\* allocatePages(20) succeeds returning the base address.
C11_S6AsWritten ==
    /\ (S6LargeHeld /\ pc = 15) => holes = <<Hole(0, S6Pages)>>
    /\ (S6LargeHeld /\ pc = 16 /\ lastCount = S6Pages) =>
          (lastRet /\ lastAddr = physMemBase)

\* C11, amended: in that run the 9 pages are still allocated, so after
\* release(b,5) the holes are (0,10) and (19,1) and allocatePages(20) fails;
\* when the 9-page allocation is released as well before release(b,5), as
\* the test hole_merging does, the hole list is a single hole of 20 pages
\* and allocatePages(20) succeeds returning the base address.
C11_S6Merging ==
    /\ (pc \in 14..16 /\ addrs[S6Blocks + 1].count = S6Large) =>
          addrs[S6Blocks + 1].addr = addrs[3].addr
    /\ (S6LargeHeld /\ pc = 15) =>
          /\ holes = <<Hole(0, 2 * S6Block), Hole(S6Pages - 1, 1)>>
          /\ nAllocatedPages = S6Large
    /\ (S6LargeHeld /\ pc = 16 /\ lastCount = S6Pages) => ~lastRet
    /\ (S6LargeReleased /\ pc = 15) => holes = <<Hole(0, S6Pages)>>
    /\ (S6LargeReleased /\ pc = 16 /\ lastCount = S6Pages) =>
          (lastRet /\ lastAddr = physMemBase)

C11_Witness ==
    /\ S6LargeReleased /\ pc = 16
    /\ lastCount = S6Pages /\ lastRet

(***************************************************************************)
(* The statistics-keeping TLB of mmu.cc.  Its entries and its LRU order    *)
(* are file-static; the counters, nEntries and a currentASID are members   *)
(* of the TLB object.  Inside TLB::lookup and TLB::add the name            *)
(* currentASID is the member (the constructor initialises it to 0 and no   *)
(* method writes it); MMU::setCurrentASID writes the MMU's member and the  *)
(* file-static variable.  Slots are numbered from 0 as in the code.        *)
(* lruMap maps a slot to its node of lruOrder; the node is the first       *)
(* occurrence of the slot in the list, so the map is kept as its key set.  *)
(***************************************************************************)
MinOf(S) == CHOOSE x \in S : \A y \in S : x <= y

RemoveFirst(order, x) ==
    IF \E k \in 1..Len(order) : order[k] = x
    THEN RemoveAt(order, MinOf({k \in 1..Len(order) : order[k] = x}))
    ELSE order

\* tlbEntries.resize(nEntries)
resize(es, n) ==
    [i \in 0..(n - 1) |-> IF i \in DOMAIN es THEN es[i] ELSE TLBEntryDefault]

\* if (!tlbInitialized) { tlbEntries.resize(nEntries); tlbInitialized = true; }
initialize(s, n) ==
    IF s.tlbInitialized
    THEN s
    ELSE [s EXCEPT !.tlbEntries = resize(@, n), !.tlbInitialized = TRUE]

\* the condition of the search loop of TLB::lookup
matches(e, vPage, asid) == e.valid /\ e.vPage = vPage /\ e.asid = asid

\* the search loop of TLB::lookup: the first slot that matches
lookupIndex(es, n, vPage, asid) ==
    LET found == {i \in 0..(n - 1) : matches(es[i], vPage, asid)}
    IN  IF found = {} THEN NoSlot ELSE MinOf(found)

\* the LRU update of a hit: erase the slot's node, push the slot to the front
moveToFront(s, i) ==
    [s EXCEPT !.lruOrder = <<i>> \o (IF i \in s.lruMap
                                     THEN RemoveFirst(@, i) ELSE @),
              !.lruMap = @ \cup {i}]

\* TLB::lookup(vPage, pPage); pPage 0 stands for the caller's untouched value
lookup(s, t, vPage) ==
    LET t1 == [t EXCEPT !.nLookups = @ + 1]
    IN  IF ~s.tlbInitialized
        THEN [s |-> initialize(s, t.nEntries), t |-> t1,
              hit |-> FALSE, pPage |-> 0, slot |-> NoSlot]
        ELSE LET i == lookupIndex(s.tlbEntries, t.nEntries, vPage,
                                  t.currentASID)
             IN  IF i # NoSlot
                 THEN [s |-> moveToFront(s, i),
                       t |-> [t1 EXCEPT !.nHits = @ + 1],
                       hit |-> TRUE, pPage |-> s.tlbEntries[i].pPage,
                       slot |-> i]
                 ELSE [s |-> s, t |-> t1,
                       hit |-> FALSE, pPage |-> 0, slot |-> NoSlot]

\* lruOrder.back(), the slot TLB::add replaces when none is empty
lruVictim_front(order) == order[1]

lruVictim(order) == order[Len(order)]

\* TLB::add(vPage, pPage)
add(s, t, vPage, pPage) ==
    LET s1 == initialize(s, t.nEntries)
        empty == {i \in 0..(t.nEntries - 1) : ~s1.tlbEntries[i].valid}
        foundEmpty == empty # {}
        evict == ~foundEmpty /\ s1.lruOrder # <<>>
        replaceIndex == IF foundEmpty THEN MinOf(empty)
                        ELSE IF evict THEN lruVictim(s1.lruOrder)
                        ELSE 0
        order == IF evict
                 THEN SubSeq(s1.lruOrder, 1, Len(s1.lruOrder) - 1)
                 ELSE s1.lruOrder
        map == IF evict THEN s1.lruMap \ {replaceIndex} ELSE s1.lruMap
    IN  [s |-> [s1 EXCEPT !.tlbEntries[replaceIndex] =
                              TLBEntry(vPage, pPage, t.currentASID),
                          !.lruOrder = <<replaceIndex>> \o order,
                          !.lruMap = map \cup {replaceIndex}],
         t |-> IF foundEmpty THEN t ELSE [t EXCEPT !.nEvictions = @ + 1],
         slot |-> replaceIndex]

\* the counting loop of TLB::flush
validCount_slots(es, n) == n

validCount(es, n) == Cardinality({i \in 0..(n - 1) : es[i].valid})

\* the invalidating loop of TLB::flush
invalidate_keepsFirst(es, n) ==
    [i \in DOMAIN es |->
        IF 0 < i /\ i < n THEN [es[i] EXCEPT !.valid = FALSE] ELSE es[i]]

invalidate(es, n) ==
    [i \in DOMAIN es |->
        IF i < n THEN [es[i] EXCEPT !.valid = FALSE] ELSE es[i]]

\* TLB::flush()
flush(s, t) ==
    LET t1 == [t EXCEPT !.nFlush = @ + 1]
    IN  IF ~s.tlbInitialized
        THEN [s |-> s, t |-> t1]
        ELSE [s |-> [s EXCEPT !.tlbEntries = invalidate(@, t.nEntries),
                              !.lruOrder = <<>>,
                              !.lruMap = {}],
              t |-> [t1 EXCEPT !.nFlushEvictions =
                                  @ + validCount(s.tlbEntries, t.nEntries)]]

\* TLB::clear()
clear(s, t) ==
    LET r == flush(s, t)
    IN  [s |-> r.s,
         t |-> [r.t EXCEPT !.nLookups = 0, !.nHits = 0, !.nEvictions = 0,
                           !.nFlush = 0, !.nFlushEvictions = 0]]

\* TLB::getStatistics(nLookups, nHits, nEvictions, nFlush, nFlushEvictions)
getStatistics(t) ==
    <<t.nLookups, t.nHits, t.nEvictions, t.nFlush, t.nFlushEvictions>>

(***************************************************************************)
(* History kept beside the code's state.                                   *)
(***************************************************************************)
touchOrder(order, slot) == <<slot>> \o SelectSeq(order, LAMBDA x : x # slot)

AllSlotsValid(s) ==
    /\ s.tlbInitialized
    /\ \A i \in DOMAIN s.tlbEntries : s.tlbEntries[i].valid

ValidSlots(s) == {i \in DOMAIN s.tlbEntries : s.tlbEntries[i].valid}

\* the history after an add that filled slot while the MMU's id was asid
AddHistory(slot, vPage, asid, full, callsBefore) ==
    /\ addOrder' = touchOrder(addOrder, slot)
    /\ useOrder' = touchOrder(useOrder, slot)
    /\ addedSinceFlush' = addedSinceFlush \cup {vPage}
    /\ addsSinceFlush' = IF addsSinceFlush < tlb.nEntries
                         THEN addsSinceFlush + 1 ELSE addsSinceFlush
    /\ insertedUnder' = [i \in DOMAIN insertedUnder \cup {slot} |->
                            IF i = slot THEN asid ELSE insertedUnder[i]]
    /\ calls' = IF full
                THEN [callsBefore EXCEPT !.evictions = @ + 1]
                ELSE callsBefore

\* the history after a lookup
LookupHistory(hit, slot) ==
    /\ useOrder' = IF hit THEN touchOrder(useOrder, slot) ELSE useOrder
    /\ calls' = [calls EXCEPT !.lookups = @ + 1,
                              !.hits = IF hit THEN @ + 1 ELSE @]
    /\ UNCHANGED <<addOrder, addedSinceFlush, addsSinceFlush, insertedUnder>>

\* the history after a flush
FlushHistory(discarded) ==
    /\ addOrder' = <<>> /\ useOrder' = <<>>
    /\ addedSinceFlush' = {} /\ addsSinceFlush' = 0
    /\ insertedUnder' = <<>>
    /\ calls' = [calls EXCEPT !.flushes = @ + 1,
                              !.flushEvictions = @ + discarded]

(***************************************************************************)
(* A caller of the TLB object itself, as the unit tests are: any lookup,   *)
(* add, flush and clear in any order.                                      *)
(***************************************************************************)
PmmIdle == Construct(testPageSize, 1) /\ pc = 0

InitTLB ==
    /\ PmmIdle
    /\ ATLBIdle
    /\ ExtIdle
    /\ TLBConstruct(TlbCapacity)

TLBLookup ==
    /\ tlb.nLookups < MaxCount
    /\ \E vPage \in VPages :
         LET r == lookup(tlbStatics, tlb, vPage)
         IN  /\ tlbStatics' = r.s
             /\ tlb' = r.t
             /\ tlbOp' = "lookup" /\ tlbArg' = vPage
             /\ tlbHit' = r.hit /\ tlbOut' = r.pPage
             /\ LookupHistory(r.hit, r.slot)
    /\ UNCHANGED <<mmu, pmmVars, callerVars, atlbAllVars,
                   extVars>>

TLBAdd ==
    /\ \E vPage \in VPages, pPage \in PPages :
         LET r == add(tlbStatics, tlb, vPage, pPage)
         IN  /\ r.t.nEvictions <= MaxCount
             /\ tlbStatics' = r.s
             /\ tlb' = r.t
             /\ tlbOp' = "add" /\ tlbArg' = vPage
             /\ tlbHit' = FALSE /\ tlbOut' = pPage
             /\ AddHistory(r.slot, vPage, mmu.currentASID,
                           AllSlotsValid(tlbStatics), calls)
    /\ UNCHANGED <<mmu, pmmVars, callerVars, atlbAllVars,
                   extVars>>

TLBFlush ==
    /\ tlb.nFlush < MaxCount
    /\ LET r == flush(tlbStatics, tlb)
       IN  /\ tlbStatics' = r.s
           /\ tlb' = r.t
    /\ tlbOp' = "flush" /\ tlbArg' = 0 /\ tlbHit' = FALSE /\ tlbOut' = 0
    /\ FlushHistory(Cardinality(ValidSlots(tlbStatics)))
    /\ UNCHANGED <<mmu, pmmVars, callerVars, atlbAllVars,
                   extVars>>

TLBClear ==
    /\ LET r == clear(tlbStatics, tlb)
       IN  /\ tlbStatics' = r.s
           /\ tlb' = r.t
    /\ tlbOp' = "clear" /\ tlbArg' = 0 /\ tlbHit' = FALSE /\ tlbOut' = 0
    /\ addOrder' = <<>> /\ useOrder' = <<>>
    /\ addedSinceFlush' = {} /\ addsSinceFlush' = 0
    /\ insertedUnder' = <<>>
    /\ calls' = NoCalls
    /\ UNCHANGED <<mmu, pmmVars, callerVars, atlbAllVars,
                   extVars>>

NextTLB == TLBLookup \/ TLBAdd \/ TLBFlush \/ TLBClear

SpecTLB == InitTLB /\ [][NextTLB]_vars

(***************************************************************************)
(* The MMU facade over the same TLB: setCurrentASID, getTranslation and    *)
(* flushTLB.  The page-table walk of getTranslation is an input here: it   *)
(* fails (NoPage) or yields some physical page.                            *)
(***************************************************************************)
SetCurrentASID ==
    /\ \E asid \in ASIDs :
         /\ mmu' = [mmu EXCEPT !.currentASID = asid]
         /\ tlbStatics' = [tlbStatics EXCEPT !.currentASID = asid]
    /\ tlbOp' = "setCurrentASID"
    /\ tlbArg' = 0 /\ tlbHit' = FALSE /\ tlbOut' = 0
    /\ UNCHANGED <<tlb, tlbHistoryVars, pmmVars, callerVars, atlbAllVars,
                   extVars>>

GetTranslation ==
    /\ tlb.nLookups < MaxAccesses
    /\ \E vPage \in VPages, walk \in PPages \cup {NoPage} :
         LET r == lookup(tlbStatics, tlb, vPage)
             a == add(r.s, r.t, vPage, walk)
         IN  /\ tlbOp' = "getTranslation" /\ tlbArg' = vPage
             /\ tlbHit' = r.hit
             /\ IF r.hit \/ walk = NoPage
                THEN /\ tlbStatics' = r.s
                     /\ tlb' = r.t
                     /\ tlbOut' = r.pPage
                     /\ LookupHistory(r.hit, r.slot)
                ELSE /\ a.t.nEvictions <= MaxAccesses
                     /\ tlbStatics' = a.s
                     /\ tlb' = a.t
                     /\ tlbOut' = walk
                     /\ AddHistory(a.slot, vPage, mmu.currentASID,
                                   AllSlotsValid(r.s),
                                   [calls EXCEPT !.lookups = @ + 1])
    /\ UNCHANGED <<mmu, pmmVars, callerVars, atlbAllVars,
                   extVars>>

FlushTLB ==
    /\ tlb.nFlush < MaxAccesses
    /\ LET r == flush(tlbStatics, tlb)
       IN  /\ tlbStatics' = r.s
           /\ tlb' = r.t
    /\ tlbOp' = "flushTLB" /\ tlbArg' = 0 /\ tlbHit' = FALSE /\ tlbOut' = 0
    /\ FlushHistory(Cardinality(ValidSlots(tlbStatics)))
    /\ UNCHANGED <<mmu, pmmVars, callerVars, atlbAllVars,
                   extVars>>

NextMMU == SetCurrentASID \/ GetTranslation \/ FlushTLB

SpecMMU == InitTLB /\ [][NextMMU]_vars

(***************************************************************************)
(* Claims about the statistics-keeping TLB, under SpecTLB and SpecMMU.     *)
(***************************************************************************)
slots == tlbStatics.tlbEntries

\* the positions of addOrder whose slot holds page v, filled under id a
AddsOf(v, a) ==
    {k \in 1..Len(addOrder) :
        /\ slots[addOrder[k]].vPage = v
        /\ insertedUnder[addOrder[k]] = a}

\* C12: lookup(v) under ASID a hits exactly when an add of v under a has not
\* since been removed by a flush or an eviction, and it returns the physical
\* page of the most recent such add; so after add(v,p1), add(v,p2) under the
\* same ASID, lookup(v) returns p2.
C12_LookupReturnsLatestAdd ==
    tlbOp = "lookup" =>
        LET adds == AddsOf(tlbArg, mmu.currentASID)
        IN  /\ tlbHit <=> adds # {}
            /\ tlbHit => tlbOut = slots[addOrder[MinOf(adds)]].pPage

\* C13: when add is called while all nEntries slots are valid, exactly one
\* entry is replaced, the one whose most recent use (its add or its last
\* hitting lookup) is the oldest, and lookup still finds the page of every
\* other resident entry afterwards.
C13_EvictsLeastRecentlyUsed ==
    [][(tlbOp' = "add" /\ AllSlotsValid(tlbStatics)) =>
         LET victim == useOrder[Len(useOrder)]
         IN  /\ tlbStatics'.tlbEntries =
                    [slots EXCEPT ![victim] =
                        TLBEntry(tlbArg', tlbOut', tlb.currentASID)]
             /\ \A j \in DOMAIN slots \ {victim} :
                    lookupIndex(tlbStatics'.tlbEntries, tlb.nEntries,
                                slots[j].vPage, slots[j].asid) # NoSlot]_vars

\* a full TLB, a hit on the older entry, then an add: the younger is replaced
C13_Witness ==
    /\ tlbOp = "add"
    /\ tlb.nEvictions = 1 /\ tlb.nHits = 1 /\ tlb.nFlush = 0
    /\ tlbStatics.lruOrder = <<1, 0>>

\* C15: after MMU::setCurrentASID(a) every entry a translation inserts is
\* tagged a and a lookup matches only entries tagged a; so a page cached
\* under ASID 1 does not hit after a switch to ASID 2 without a flush.
C15_TaggedWithCurrentASID ==
    /\ \A i \in ValidSlots(tlbStatics) : slots[i].asid = insertedUnder[i]
    /\ (tlbOp = "getTranslation" /\ tlbHit) =>
           insertedUnder[tlbStatics.lruOrder[1]] = mmu.currentASID

\* C19: after flush() every lookup misses until a later add of that page,
\* whatever was resident before; the flush leaves no valid entry and an
\* empty LRU order, and the adds that follow fill empty slots without
\* counting evictions.
C19_FlushEmptiesTLB ==
    /\ [](tlbStatics.tlbInitialized =>
            \A v \in VPages \ addedSinceFlush :
                lookupIndex(slots, tlb.nEntries, v, tlb.currentASID) = NoSlot)
    /\ [](tlbOp = "flush" =>
            /\ ValidSlots(tlbStatics) = {}
            /\ tlbStatics.lruOrder = <<>>
            /\ tlbStatics.lruMap = {})
    /\ [][(tlbOp' = "lookup" /\ tlbArg' \notin addedSinceFlush) =>
            ~tlbHit']_vars
    /\ [][(tlbOp' = "add" /\ addsSinceFlush < tlb.nEntries) =>
            /\ tlb'.nEvictions = tlb.nEvictions
            /\ tlbStatics'.lruOrder[1] \notin ValidSlots(tlbStatics)]_vars

\* a lookup misses on a page whose entry a flush has invalidated
C19_Witness ==
    /\ tlbOp = "lookup" /\ ~tlbHit
    /\ tlb.nFlush > 0
    /\ \E i \in DOMAIN slots : ~slots[i].valid /\ slots[i].vPage = tlbArg
    /\ ValidSlots(tlbStatics) # {}

ATLBEntry(va, pa, asid, node) ==
    [virtualAddress |-> va, physicalAddress |-> pa, asid |-> asid,
     node |-> node]

Nodes(es) == {es[k].node : k \in 1..Len(es)}

\* the position in the list of the node an iterator designates
nodeIndex(es, node) == MinOf({k \in 1..Len(es) : es[k].node = node})

freshNode(es) == MinOf((0..Len(es)) \ Nodes(es))

\* cache.erase(key)
mapErase(c, key) == [k \in DOMAIN c \ {key} |-> c[k]]

\* cache[key] = node
mapPut(c, key, node) ==
    [k \in DOMAIN c \cup {key} |-> IF k = key THEN node ELSE c[k]]

\* addEntry, first part: an entry of the same address is taken out
eraseOld_keeps(t, va) == t

eraseOld(t, va) ==
    IF va \in DOMAIN t.cache
    THEN [t EXCEPT !.entries = RemoveAt(@, nodeIndex(@, t.cache[va])),
                   !.cache = mapErase(@, va)]
    ELSE t

\* addEntry, second part: a full list gives up its last entry
evictLast_first(t) ==
    IF Len(t.entries) = t.numEntries
    THEN [t EXCEPT !.cache = mapErase(@, t.entries[1].virtualAddress),
                   !.entries = Tail(@)]
    ELSE t

evictLast(t) ==
    IF Len(t.entries) = t.numEntries
    THEN [t EXCEPT !.cache =
                       mapErase(@, t.entries[Len(t.entries)].virtualAddress),
                   !.entries = SubSeq(@, 1, Len(@) - 1)]
    ELSE t

\* TLB::addEntry(virtualAddress, physicalAddress, asid)
addEntry(t, va, pa, asid) ==
    LET t2 == evictLast(eraseOld(t, va))
        node == freshNode(t2.entries)
    IN  [t2 EXCEPT !.entries = <<ATLBEntry(va, pa, asid, node)>> \o @,
                   !.cache = mapPut(@, va, node)]

\* it->second->asid == asid
asidMatches_any(e, asid) == TRUE

asidMatches(e, asid) == e.asid = asid

\* TLB::lookup(virtualAddress, physicalAddress, asid) of tlb.h;
\* physicalAddress 0 stands for the caller's untouched value
lookupEntry(t, va, asid) ==
    IF /\ va \in DOMAIN t.cache
       /\ asidMatches(t.entries[nodeIndex(t.entries, t.cache[va])], asid)
    THEN LET k == nodeIndex(t.entries, t.cache[va])
         IN  [t |-> [t EXCEPT !.entries = <<@[k]>> \o RemoveAt(@, k)],
              hit |-> TRUE,
              physicalAddress |-> t.entries[k].physicalAddress]
    ELSE [t |-> t, hit |-> FALSE, physicalAddress |-> 0]

\* TLB::flush() of tlb.h
flushEntries(t) == [t EXCEPT !.entries = <<>>, !.cache = <<>>]

\* the loop of TLB::flushASID, with the iterator at position it
RECURSIVE flushLoop_skipsNext(_, _, _)
flushLoop_skipsNext(t, it, asid) ==
    IF it > Len(t.entries)
    THEN t
    ELSE IF t.entries[it].asid = asid
         THEN flushLoop_skipsNext(
                  [t EXCEPT !.cache =
                                mapErase(@, t.entries[it].virtualAddress),
                            !.entries = RemoveAt(@, it)],
                  it + 1, asid)
         ELSE flushLoop_skipsNext(t, it + 1, asid)

\* the loop without cache.erase(it->virtualAddress)
RECURSIVE flushLoop_keepsIndex(_, _, _)
flushLoop_keepsIndex(t, it, asid) ==
    IF it > Len(t.entries)
    THEN t
    ELSE IF t.entries[it].asid = asid
         THEN flushLoop_keepsIndex([t EXCEPT !.entries = RemoveAt(@, it)],
                                   it, asid)
         ELSE flushLoop_keepsIndex(t, it + 1, asid)

RECURSIVE flushLoop(_, _, _)
flushLoop(t, it, asid) ==
    IF it > Len(t.entries)
    THEN t
    ELSE IF t.entries[it].asid = asid
         THEN flushLoop([t EXCEPT !.cache =
                                     mapErase(@, t.entries[it].virtualAddress),
                                  !.entries = RemoveAt(@, it)],
                        it, asid)
         ELSE flushLoop(t, it + 1, asid)

\* TLB::flushASID(asid)
flushASID(t, asid) == flushLoop(t, 1, asid)

(***************************************************************************)
(* The three calls with their arguments, as a caller sees them, and the    *)
(* history kept beside them.                                               *)
(***************************************************************************)
CallAddEntry(va, pa, asid) ==
    /\ asidTlb' = addEntry(asidTlb, va, pa, asid)
    /\ atlbOp' = "addEntry" /\ atlbArg' = va /\ atlbAsid' = asid
    /\ atlbHit' = FALSE /\ atlbOut' = pa
    /\ addedAs' = [n \in Nodes(asidTlb'.entries) |->
                     IF n = asidTlb'.entries[1].node
                     THEN [virtualAddress |-> va, physicalAddress |-> pa,
                           asid |-> asid]
                     ELSE addedAs[n]]
    /\ effect' =
          [dropped |-> Len(asidTlb.entries) + 1 - Len(asidTlb'.entries),
           old |-> \E k \in 1..Len(asidTlb.entries) :
                      /\ asidTlb.entries[k].virtualAddress = va
                      /\ asidTlb.entries[k].asid # asid,
           tail |-> IF /\ Len(asidTlb.entries) = asidTlb.numEntries
                       /\ va \notin DOMAIN asidTlb.cache
                    THEN asidTlb.entries[Len(asidTlb.entries)].virtualAddress
                    ELSE NoPage]

CallLookup(va, asid) ==
    LET r == lookupEntry(asidTlb, va, asid)
    IN  /\ asidTlb' = r.t
        /\ atlbOp' = "lookup" /\ atlbArg' = va /\ atlbAsid' = asid
        /\ atlbHit' = r.hit /\ atlbOut' = r.physicalAddress
        /\ effect' = NoEffect
        /\ UNCHANGED addedAs

CallFlushASID(asid) ==
    /\ asidTlb' = flushASID(asidTlb, asid)
    /\ atlbOp' = "flushASID" /\ atlbArg' = 0 /\ atlbAsid' = asid
    /\ atlbHit' = FALSE /\ atlbOut' = 0
    /\ addedAs' = [n \in Nodes(asidTlb'.entries) |-> addedAs[n]]
    /\ effect' = [dropped |-> Len(asidTlb.entries) - Len(asidTlb'.entries),
                  old |-> FALSE, tail |-> NoPage]

(***************************************************************************)
(* A free caller of the TLB of tlb.h.                                      *)
(***************************************************************************)
InitATLB ==
    /\ PmmIdle
    /\ TLBIdle
    /\ ExtIdle
    /\ ATLBConstruct(TlbCapacity)
    /\ script = NoScript

ATLBAddEntry ==
    /\ \E va \in VPages, pa \in PPages, asid \in ASIDs :
          CallAddEntry(va, pa, asid)
    /\ UNCHANGED <<script, pmmVars, callerVars, tlbAllVars,
                   extVars>>

ATLBLookup ==
    /\ \E va \in VPages, asid \in ASIDs : CallLookup(va, asid)
    /\ UNCHANGED <<script, pmmVars, callerVars, tlbAllVars,
                   extVars>>

ATLBFlush ==
    /\ asidTlb' = flushEntries(asidTlb)
    /\ atlbOp' = "flush" /\ atlbArg' = 0 /\ atlbAsid' = 0
    /\ atlbHit' = FALSE /\ atlbOut' = 0
    /\ addedAs' = <<>>
    /\ effect' = [dropped |-> Len(asidTlb.entries), old |-> FALSE]
    /\ UNCHANGED <<script, pmmVars, callerVars, tlbAllVars,
                   extVars>>

ATLBFlushASID ==
    /\ \E asid \in ASIDs : CallFlushASID(asid)
    /\ UNCHANGED <<script, pmmVars, callerVars, tlbAllVars,
                   extVars>>

NextATLB == ATLBAddEntry \/ ATLBLookup \/ ATLBFlush \/ ATLBFlushASID

SpecATLB == InitATLB /\ [][NextATLB]_vars

(***************************************************************************)
(* The scripted caller of scenario S4 on a TLB of four entries: one        *)
(* address va entered under asid a with pa, looked up under b, entered     *)
(* under b with pb, looked up twice under a or b, then flushASID(a) and a  *)
(* last lookup.  The address, the two ids and the two physical addresses   *)
(* are chosen at the start.                                                *)
(*   script.pc = 1: first add, 2: lookup under b, 3: second add,           *)
(*   4, 5: lookups, 6: flushASID, 7: last lookup, 8: done.                 *)
(***************************************************************************)
InitS4 ==
    /\ PmmIdle
    /\ TLBIdle
    /\ ExtIdle
    /\ ATLBConstruct(S4Capacity)
    /\ \E va \in VPages, a \in ASIDs, b \in ASIDs, pa \in PPages,
          pb \in PPages :
          /\ a # b /\ pa # pb
          /\ script = [pc |-> 1, va |-> va, a |-> a, b |-> b,
                       pa |-> pa, pb |-> pb]

S4Advance == script' = [script EXCEPT !.pc = @ + 1]

S4AddFirst ==
    /\ script.pc = 1
    /\ CallAddEntry(script.va, script.pa, script.a)
    /\ S4Advance
    /\ UNCHANGED <<pmmVars, callerVars, tlbAllVars,
                   extVars>>

S4LookupOther ==
    /\ script.pc = 2
    /\ CallLookup(script.va, script.b)
    /\ S4Advance
    /\ UNCHANGED <<pmmVars, callerVars, tlbAllVars,
                   extVars>>

S4AddSecond ==
    /\ script.pc = 3
    /\ CallAddEntry(script.va, script.pb, script.b)
    /\ S4Advance
    /\ UNCHANGED <<pmmVars, callerVars, tlbAllVars,
                   extVars>>

S4Lookup ==
    /\ script.pc \in {4, 5, 7}
    /\ \E asid \in {script.a, script.b} : CallLookup(script.va, asid)
    /\ S4Advance
    /\ UNCHANGED <<pmmVars, callerVars, tlbAllVars,
                   extVars>>

S4FlushASID ==
    /\ script.pc = 6
    /\ CallFlushASID(script.a)
    /\ S4Advance
    /\ UNCHANGED <<pmmVars, callerVars, tlbAllVars,
                   extVars>>

NextS4 ==
    S4AddFirst \/ S4LookupOther \/ S4AddSecond \/ S4Lookup \/ S4FlushASID

SpecS4 == InitS4 /\ [][NextS4]_vars

(***************************************************************************)
(* Claims about the TLB of tlb.h, under SpecATLB and SpecS4.               *)
(***************************************************************************)
entries == asidTlb.entries

EntriesOf(es, va) == {k \in 1..Len(es) : es[k].virtualAddress = va}

\* C14: lookup(v, ., b) never returns true for a translation that was added
\* under an asid other than b: a hit returns the physical address of an
\* entry for v that addEntry made under b.
C14_NoHitAcrossASIDs ==
    (atlbOp = "lookup" /\ atlbHit) =>
        LET made == addedAs[entries[1].node]
        IN  /\ made.virtualAddress = atlbArg
            /\ made.asid = atlbAsid
            /\ made.physicalAddress = atlbOut

\* a lookup misses on an address that is entered under another asid
C14_Witness ==
    /\ atlbOp = "lookup" /\ ~atlbHit
    /\ \E k \in EntriesOf(entries, atlbArg) : entries[k].asid # atlbAsid

\* C16: the list holds at most one entry per virtual address, whatever the
\* asids; addEntry takes the old entry of the address out first, so after
\* it the only entry of the address is the new one, at the front.
C16_OneEntryPerAddress ==
    /\ \A va \in VPages : Cardinality(EntriesOf(entries, va)) <= 1
    /\ atlbOp = "addEntry" =>
          /\ EntriesOf(entries, atlbArg) = {1}
          /\ entries[1].physicalAddress = atlbOut
          /\ entries[1].asid = atlbAsid

\* an addEntry of an address that was entered under another asid
C16_Witness ==
    /\ atlbOp = "addEntry" /\ effect.old
    /\ Len(entries) = asidTlb.numEntries

\* the scripted caller has made both adds and the lookup that ran last was
\* under asid
S4LookedUp(asid) ==
    /\ script.pc \in {5, 6}
    /\ atlbOp = "lookup" /\ atlbAsid = asid

\* C17: in scenario S4, after add(1, 0xA, 0xAA) and then
\* add(2, 0xA, 0xBB), lookup(2, 0xA) returns 0xBB and lookup(1, 0xA) still
\* hits and returns 0xAA: the entries of one page under two asids coexist.
C17_BothASIDsRetained ==
    /\ S4LookedUp(script.b) => (atlbHit /\ atlbOut = script.pb)
    /\ S4LookedUp(script.a) => (atlbHit /\ atlbOut = script.pa)

\* C18: flushASID(a) removes every entry whose asid is a and nothing else:
\* the entries of other asids stay, with their physical addresses and in
\* their order, and lookup still finds each of them.
C18_FlushASIDSelective ==
    [][atlbOp' = "flushASID" =>
         /\ asidTlb'.entries =
                SelectSeq(entries, LAMBDA e : e.asid # atlbAsid')
         /\ \A k \in 1..Len(asidTlb'.entries) :
               LET e == asidTlb'.entries[k]
                   r == lookupEntry(asidTlb', e.virtualAddress, e.asid)
               IN  r.hit /\ r.physicalAddress = e.physicalAddress
         /\ \A va \in VPages :
               ~lookupEntry(asidTlb', va, atlbAsid').hit]_vars

\* a flushASID that removed one entry and kept another
C18_Witness ==
    /\ atlbOp = "flushASID"
    /\ effect.dropped = 1
    /\ Len(entries) = 1

\* C21: the TLB of tlb.h with capacity N >= 1 never holds more than N
\* entries, and an addEntry of an address that is not resident into a list of
\* N entries takes out exactly one entry, the one at the tail of the list:
\* the others keep their order behind the new entry.
C21_CapacityRespected ==
    /\ Len(asidTlb.entries) <= asidTlb.numEntries
    /\ [][/\ Len(asidTlb'.entries) <= asidTlb'.numEntries
          /\ (/\ atlbOp' = "addEntry"
              /\ Len(asidTlb.entries) = asidTlb.numEntries
              /\ EntriesOf(asidTlb.entries, atlbArg') = {})
             => /\ Len(asidTlb'.entries) = asidTlb.numEntries
                /\ Tail(asidTlb'.entries) =
                      SubSeq(asidTlb.entries, 1, Len(asidTlb.entries) - 1)
                /\ effect'.dropped = 1]_vars

\* an addEntry of a new address has pushed the tail out of a full list
C21_Witness ==
    /\ atlbOp = "addEntry"
    /\ Len(entries) = asidTlb.numEntries
    /\ effect.tail # NoPage
    /\ EntriesOf(entries, effect.tail) = {}

\* C39: the map cache and the list entries of the TLB of tlb.h agree after
\* every call: the map has as many keys as the list has entries, every
\* key's iterator designates a node of the list, that node holds the key
\* as its virtual address, and no two entries share a node.
C39_IndexMatchesList ==
    /\ Cardinality(DOMAIN asidTlb.cache) = Len(asidTlb.entries)
    /\ \A va \in DOMAIN asidTlb.cache :
          /\ asidTlb.cache[va] \in Nodes(asidTlb.entries)
          /\ asidTlb.entries[nodeIndex(asidTlb.entries,
                                       asidTlb.cache[va])].virtualAddress
                = va
    /\ \A i, j \in 1..Len(asidTlb.entries) :
          i # j => asidTlb.entries[i].node # asidTlb.entries[j].node

\* flushASID has taken an entry off the list and left another
C39_Witness ==
    /\ atlbOp = "flushASID"
    /\ effect.dropped >= 1
    /\ Len(asidTlb.entries) >= 1

(***************************************************************************)
(* Two TLB objects of the statistics TLB.  tlbEntries, lruOrder, lruMap    *)
(* and tlbInitialized are objects of the translation unit, so both TLB     *)
(* objects work on tlbStatics; each has its own members (tlb and tlbB).    *)
(* Both are given the same number of entries.                              *)
(***************************************************************************)
TwoCall == nTwoCalls < MaxTwoCalls /\ nTwoCalls' = nTwoCalls + 1

membersOf(obj) == IF obj = 1 THEN tlb ELSE tlbB.members

constructedObjs == IF tlbB.constructed THEN {1, 2} ELSE {1}

\* the members of object obj become t
SetMembers(obj, t) ==
    IF obj = 1
    THEN tlb' = t /\ UNCHANGED tlbB
    ELSE tlbB' = [tlbB EXCEPT !.members = t] /\ UNCHANGED tlb

InitTwoTLB == InitTLB

\* TLB second(nEntries, mmu): the constructor touches members only
TwoConstruct ==
    /\ ~tlbB.constructed
    /\ tlbB' = [constructed |-> TRUE, members |-> TLBMembers(tlb.nEntries)]
    /\ tlbOp' = "construct" /\ tlbArg' = 0 /\ tlbHit' = FALSE /\ tlbOut' = 0
    /\ tlbObj' = 2
    /\ UNCHANGED <<tlbStatics, tlb, mmu, addedVia, nTwoCalls, tlbHistoryVars,
                   pmmVars, callerVars, atlbAllVars, ptAllVars,
                   lateVars>>

TwoLookup ==
    /\ TwoCall
    /\ \E obj \in constructedObjs, vPage \in VPages :
         LET r == lookup(tlbStatics, membersOf(obj), vPage)
         IN  /\ tlbStatics' = r.s
             /\ SetMembers(obj, r.t)
             /\ tlbOp' = "lookup" /\ tlbArg' = vPage
             /\ tlbHit' = r.hit /\ tlbOut' = r.pPage
             /\ tlbObj' = obj
    /\ UNCHANGED <<mmu, addedVia, tlbHistoryVars, pmmVars, callerVars,
                   atlbAllVars, ptAllVars,
                   lateVars>>

TwoAdd ==
    /\ TwoCall
    /\ \E obj \in constructedObjs, vPage \in VPages, pPage \in PPages :
         LET r == add(tlbStatics, membersOf(obj), vPage, pPage)
         IN  /\ tlbStatics' = r.s
             /\ SetMembers(obj, r.t)
             /\ tlbOp' = "add" /\ tlbArg' = vPage
             /\ tlbHit' = FALSE /\ tlbOut' = pPage
             /\ tlbObj' = obj
             /\ addedVia' = [addedVia EXCEPT ![obj] = @ \cup {vPage}]
    /\ UNCHANGED <<mmu, tlbHistoryVars, pmmVars, callerVars, atlbAllVars,
                   ptAllVars, lateVars>>

TwoFlush ==
    /\ TwoCall
    /\ \E obj \in constructedObjs :
         LET r == flush(tlbStatics, membersOf(obj))
         IN  /\ tlbStatics' = r.s
             /\ SetMembers(obj, r.t)
             /\ tlbObj' = obj
    /\ tlbOp' = "flush" /\ tlbArg' = 0 /\ tlbHit' = FALSE /\ tlbOut' = 0
    /\ UNCHANGED <<mmu, addedVia, tlbHistoryVars, pmmVars, callerVars,
                   atlbAllVars, ptAllVars,
                   lateVars>>

NextTwoTLB == TwoConstruct \/ TwoLookup \/ TwoAdd \/ TwoFlush

SpecTwoTLB == InitTwoTLB /\ [][NextTwoTLB]_vars

\* C22: the state of a TLB is its own: a lookup on one TLB object hits only
\* for a page that was given to add() of that same object, so a TLB on which
\* add() was never called misses on every lookup, whatever was done to the
\* other object.
C22_StatePerInstance ==
    (tlbOp = "lookup" /\ tlbHit) => tlbArg \in addedVia[tlbObj]

(***************************************************************************)
(* Page tables of AArch64MMU.  Addresses are in units of 1 KiB, so a       *)
(* shift by pageBits is a multiplication or division by aarch64PageSize.   *)
(* physicalPageNum is a field of 34 bits; every page number here is far    *)
(* below 2^34.                                                             *)
(***************************************************************************)
L0_INDEX(vaddr) ==
    (vaddr \div (L1_ENTRIES * L2_ENTRIES * L3_ENTRIES * aarch64PageSize))
        % L0_ENTRIES

\* L1_INDEX with the shift of L2_INDEX
L1_INDEX_shiftOfL2(vaddr) ==
    (vaddr \div (L3_ENTRIES * aarch64PageSize)) % L1_ENTRIES

L1_INDEX(vaddr) ==
    (vaddr \div (L2_ENTRIES * L3_ENTRIES * aarch64PageSize)) % L1_ENTRIES

L2_INDEX(vaddr) == (vaddr \div (L3_ENTRIES * aarch64PageSize)) % L2_ENTRIES

L3_INDEX(vaddr) == (vaddr \div aarch64PageSize) % L3_ENTRIES

\* struct SimpleTableEntry
SimpleTableEntry(valid, type, physicalPageNum, referenced, dirty) ==
    [valid |-> valid, type |-> type, physicalPageNum |-> physicalPageNum,
     referenced |-> referenced, dirty |-> dirty]

\* SimpleTableEntry{ 0 }
ZeroEntry == SimpleTableEntry(0, 0, 0, 0, 0)

\* a cleared table of n entries
ZeroTable(n) == [i \in 0..(n - 1) |-> ZeroEntry]

\* the condition under which the walk goes on from an entry of level 0 to 2
isTableEntry_anyType(e) == e.valid = 1

isTableEntry_leaf(e) == e.valid = 1 /\ e.type = 0

isTableEntry(e) == e.valid = 1 /\ e.type = 1

\* the address of the table an entry points to
tableOf(e) == e.physicalPageNum * aarch64PageSize

\* what a successful walk writes to the entry of level 3
markAccess_dirty(e, isWrite) == [e EXCEPT !.referenced = 1, !.dirty = 1]

markAccess(e, isWrite) ==
    [e EXCEPT !.referenced = 1, !.dirty = IF isWrite THEN 1 ELSE @]

\* the store to one entry of one table
storeEntry_table(m, table, idx, e) ==
    [m EXCEPT ![table] = [i \in DOMAIN @ |-> e]]

storeEntry(m, table, idx, e) == [m EXCEPT ![table][idx] = e]

\* The walk of AArch64MMU::performTranslation down to the table of level 3:
\* the level at which it stops (4: the entry of level 3 is valid) and the
\* table and index of the entry it stopped at.
walkTo(m, rt, vPage) ==
    LET vAddr == vPage * aarch64PageSize
        l0_idx == L0_INDEX(vAddr)
        l1_idx == L1_INDEX(vAddr)
        l2_idx == L2_INDEX(vAddr)
        l3_idx == L3_INDEX(vAddr)
        l0_table == rt
        l1_table == tableOf(m[l0_table][l0_idx])
        l2_table == tableOf(m[l1_table][l1_idx])
        l3_table == tableOf(m[l2_table][l2_idx])
    IN  IF ~isTableEntry(m[l0_table][l0_idx])
        THEN [level |-> 0, table |-> l0_table, idx |-> l0_idx]
        ELSE IF ~isTableEntry(m[l1_table][l1_idx])
        THEN [level |-> 1, table |-> l1_table, idx |-> l1_idx]
        ELSE IF ~isTableEntry(m[l2_table][l2_idx])
        THEN [level |-> 2, table |-> l2_table, idx |-> l2_idx]
        ELSE IF m[l3_table][l3_idx].valid # 1
        THEN [level |-> 3, table |-> l3_table, idx |-> l3_idx]
        ELSE [level |-> 4, table |-> l3_table, idx |-> l3_idx]

\* AArch64MMU::performTranslation(vPage, pPage, isWrite) with MMU::root rt;
\* pPage NoPage stands for the caller's untouched value
performTranslation(m, rt, vPage, isWrite) ==
    IF rt % pageTableAlign # 0
    THEN [ret |-> "throw", pPage |-> NoPage, m |-> m]
    ELSE LET w == walkTo(m, rt, vPage)
             e == m[w.table][w.idx]
         IN  IF w.level < 4
             THEN [ret |-> "false", pPage |-> NoPage, m |-> m]
             ELSE [ret |-> "true", pPage |-> e.physicalPageNum,
                   m |-> storeEntry(m, w.table, w.idx,
                                    markAccess(e, isWrite))]

(***************************************************************************)
(* The walker on the tables of the test fixture: one table per level,      *)
(* setupValidMapping writes into them, the page-table pointer is set to    *)
(* the table of level 0 or to any other aligned table or to an address     *)
(* that is not aligned.                                                    *)
(***************************************************************************)
\* the table the fixture allocates for a level
fixtureTable(level) == (level + 1) * aarch64PageSize

FixtureTables == {fixtureTable(level) : level \in 0..3}

\* the virtual page with the given indices
pageOf(l0, l1, l2, l3) ==
    ((l0 * L1_ENTRIES + l1) * L2_ENTRIES + l2) * L3_ENTRIES + l3

SetupPages == {pageOf(0, 0, 0, 0), pageOf(0, 0, 0, 1), pageOf(1, 0, 0, 0)}

WalkPages == SetupPages \cup {pageOf(0, 0, 1, 0), pageOf(0, 1, 0, 0)}

\* an address inside the table of level 0
misalignedRoot == fixtureTable(0) + 1

\* AArch64MMUFixture::AArch64MMUFixture()
InitWalk ==
    /\ PmmIdle
    /\ TLBIdle
    /\ ATLBIdle
    /\ TwoIdle
    /\ DrvIdle
    /\ AccIdle
    /\ LateIdle
    /\ ptMem = [t \in FixtureTables |->
                  ZeroTable(IF t = fixtureTable(0) THEN L0_ENTRIES
                            ELSE L1_ENTRIES)]
    /\ root = fixtureTable(0)
    /\ ptOp = NoPtOp

\* AArch64MMUFixture::setupValidMapping(vPage, pPage): valid, type and
\* physicalPageNum of one entry per level
setupValidMapping(m, vPage, pPage) ==
    LET vAddr == vPage * aarch64PageSize
        l0_idx == L0_INDEX(vAddr)
        l1_idx == L1_INDEX(vAddr)
        l2_idx == L2_INDEX(vAddr)
        l3_idx == L3_INDEX(vAddr)
        setup(e, type, physicalPageNum) ==
            [e EXCEPT !.valid = 1, !.type = type,
                      !.physicalPageNum = physicalPageNum]
    IN  [m EXCEPT
            ![fixtureTable(0)][l0_idx] =
                setup(@, 1, fixtureTable(1) \div aarch64PageSize),
            ![fixtureTable(1)][l1_idx] =
                setup(@, 1, fixtureTable(2) \div aarch64PageSize),
            ![fixtureTable(2)][l2_idx] =
                setup(@, 1, fixtureTable(3) \div aarch64PageSize),
            ![fixtureTable(3)][l3_idx] = setup(@, 0, pPage)]

SetupValidMapping ==
    /\ \E vPage \in SetupPages, pPage \in PPages :
          /\ ptMem' = setupValidMapping(ptMem, vPage, pPage)
          /\ ptOp' = [op |-> "setupValidMapping", pid |-> 0,
                      vPage |-> vPage, isWrite |-> FALSE, ret |-> "none",
                      pPage |-> pPage]
    /\ UNCHANGED <<root, drvVars, accVars, twoVars, lateVars,
                   pmmVars, callerVars,
                   tlbAllVars, atlbAllVars>>

\* MMU::setPageTablePointer(_root)
SetPageTablePointer ==
    /\ \E rt \in FixtureTables \cup {misalignedRoot} :
          /\ root' = rt
          /\ ptOp' = [NoPtOp EXCEPT !.op = "setPageTablePointer"]
    /\ UNCHANGED <<ptMem, drvVars, accVars, twoVars, lateVars,
                   pmmVars, callerVars,
                   tlbAllVars, atlbAllVars>>

PerformTranslation ==
    /\ \E vPage \in WalkPages, isWrite \in BOOLEAN :
          LET r == performTranslation(ptMem, root, vPage, isWrite)
          IN  /\ ptMem' = r.m
              /\ ptOp' = [op |-> "performTranslation", pid |-> 0,
                          vPage |-> vPage, isWrite |-> isWrite,
                          ret |-> r.ret, pPage |-> r.pPage]
    /\ UNCHANGED <<root, drvVars, accVars, twoVars, lateVars,
                   pmmVars, callerVars,
                   tlbAllVars, atlbAllVars>>

NextWalk == SetupValidMapping \/ SetPageTablePointer \/ PerformTranslation

SpecWalk == InitWalk /\ [][NextWalk]_vars

\* the entries a walk of vPage from table rt selects in memory m, each
\* read only when the one above it has been read
entry0(m, rt, vPage) == m[rt][L0_INDEX(vPage * aarch64PageSize)]

entry1(m, rt, vPage) ==
    m[entry0(m, rt, vPage).physicalPageNum * aarch64PageSize]
     [L1_INDEX(vPage * aarch64PageSize)]

entry2(m, rt, vPage) ==
    m[entry1(m, rt, vPage).physicalPageNum * aarch64PageSize]
     [L2_INDEX(vPage * aarch64PageSize)]

\* where the entry of level 3 is
leafTable(m, rt, vPage) ==
    entry2(m, rt, vPage).physicalPageNum * aarch64PageSize

leafIndex(vPage) == L3_INDEX(vPage * aarch64PageSize)

entry3(m, rt, vPage) == m[leafTable(m, rt, vPage)][leafIndex(vPage)]

Translated == ptOp.op = "performTranslation" /\ ptOp.ret = "true"

\* C23: with an aligned root, performTranslation returns true exactly when
\* the entries of levels 0, 1 and 2 that vPage selects are valid tables and
\* the entry of level 3 it selects is valid, and then pPage is that entry's
\* physicalPageNum; otherwise it returns false.
C23_TrueIffMapped ==
    (ptOp.op = "performTranslation" /\ root % pageTableAlign = 0) =>
        LET isTable(e) == e.valid = 1 /\ e.type = 1
            mapped == /\ isTable(entry0(ptMem, root, ptOp.vPage))
                      /\ isTable(entry1(ptMem, root, ptOp.vPage))
                      /\ isTable(entry2(ptMem, root, ptOp.vPage))
                      /\ entry3(ptMem, root, ptOp.vPage).valid = 1
        IN  /\ ptOp.ret \in {"true", "false"}
            /\ ptOp.ret = "true" <=> mapped
            /\ ptOp.ret = "true" =>
                  ptOp.pPage = entry3(ptMem, root, ptOp.vPage).physicalPageNum

\* a translation has succeeded
C23_Witness == Translated /\ ptOp.pPage = MaxPPage

\* a translation has stopped at a valid entry of level 0 that is no table
C23_WitnessNotTable ==
    /\ ptOp.op = "performTranslation" /\ ptOp.ret = "false"
    /\ root % pageTableAlign = 0
    /\ entry0(ptMem, root, ptOp.vPage).valid = 1
    /\ entry0(ptMem, root, ptOp.vPage).type = 0

\* C24: a successful performTranslation leaves referenced = 1 in the entry
\* of level 3 it reached, and dirty = 1 there when isWrite; when not isWrite
\* dirty is what it was before the call.
C24_ReferencedAndDirty ==
    [][(ptOp'.op = "performTranslation" /\ ptOp'.ret = "true") =>
          LET old == entry3(ptMem, root, ptOp'.vPage)
              new == entry3(ptMem', root, ptOp'.vPage)
          IN  /\ new.referenced = 1
              /\ new.dirty = IF ptOp'.isWrite THEN 1 ELSE old.dirty]_vars

\* a read has succeeded on a page that was written before, and dirty is
\* still 1
C24_Witness ==
    /\ Translated /\ ~ptOp.isWrite
    /\ entry3(ptMem, root, ptOp.vPage).dirty = 1

\* C25: a performTranslation that returns false leaves every entry of every
\* table as it was; one that returns true changes at most referenced and
\* dirty of the one entry of level 3 it reached.
C25_NothingElseChanges ==
    [][ptOp'.op = "performTranslation" =>
          /\ ptOp'.ret # "true" => ptMem' = ptMem
          /\ ptOp'.ret = "true" =>
                LET table == leafTable(ptMem, root, ptOp'.vPage)
                    idx == leafIndex(ptOp'.vPage)
                IN  /\ DOMAIN ptMem' = DOMAIN ptMem
                    /\ \A t \in DOMAIN ptMem : \A i \in DOMAIN ptMem[t] :
                          IF t = table /\ i = idx
                          THEN ptMem'[t][i] =
                                 [ptMem[t][i] EXCEPT
                                     !.referenced = ptMem'[t][i].referenced,
                                     !.dirty = ptMem'[t][i].dirty]
                          ELSE ptMem'[t][i] = ptMem[t][i]
          /\ root' = root]_vars

\* a translation from the table of level 0 has failed below a valid entry
C25_Witness ==
    /\ ptOp.op = "performTranslation" /\ ptOp.ret = "false"
    /\ root = fixtureTable(0)
    /\ entry0(ptMem, root, ptOp.vPage).valid = 1

(***************************************************************************)
(* AArch64MMUDriver.  Its operations work on the record dr of the table    *)
(* memory m, pageTables and bytesAllocated.  The kernel that lends memory  *)
(* for tables is not part of the driver: allocateMemory hands out the      *)
(* lowest free aligned region of a pool, and never fails.                  *)
(***************************************************************************)
KernelPool == {f * aarch64PageSize : f \in 1..MaxTables}

freeMemory(m) == KernelPool \ DOMAIN m

\* kernel->allocateMemory(size, pageTableAlign)
allocateMemory(m) == MinOf(freeMemory(m))

\* std::memset(table, 0, size) on the region just lent
newTable(m, table, n) ==
    [a \in DOMAIN m \cup {table} |-> IF a = table THEN ZeroTable(n) ELSE m[a]]

\* initTableEntry with the type left at 0, and with referenced set
initTableEntry_leaf(address, isTable) ==
    SimpleTableEntry(1, 0, address \div aarch64PageSize, 0, 0)

initTableEntry_referenced(address, isTable) ==
    SimpleTableEntry(1, IF isTable THEN 1 ELSE 0,
                     address \div aarch64PageSize, 1, 0)

initTableEntry(address, isTable) ==
    SimpleTableEntry(1, IF isTable THEN 1 ELSE 0,
                     address \div aarch64PageSize, 0, 0)

getAddress(entry) == entry.physicalPageNum * aarch64PageSize

\* allocatePageTableLevel without bytesAllocated += tableSize
allocatePageTableLevel_uncounted(dr) ==
    LET table == allocateMemory(dr.m)
    IN  [dr |-> [dr EXCEPT !.m = newTable(@, table, L1_ENTRIES)],
         table |-> table]

\* AArch64MMUDriver::allocatePageTableLevel()
allocatePageTableLevel(dr) ==
    LET tableSize == L1_ENTRIES * entrySize
        table == allocateMemory(dr.m)
    IN  [dr |-> [dr EXCEPT !.m = newTable(@, table, L1_ENTRIES),
                           !.bytesAllocated = @ + tableSize],
         table |-> table]

\* the first branch of getOrCreateTable, taken whatever the entry holds
getOrCreateTable_fresh(dr, parent, index) ==
    LET a == allocatePageTableLevel(dr)
    IN  [dr |-> [a.dr EXCEPT !.m[parent][index] =
                                initTableEntry(a.table, TRUE)],
         table |-> a.table, ok |-> TRUE]

\* AArch64MMUDriver::getOrCreateTable(parent, index); ok is FALSE when it
\* throws
getOrCreateTable(dr, parent, index) ==
    IF dr.m[parent][index].valid = 0
    THEN LET a == allocatePageTableLevel(dr)
         IN  [dr |-> [a.dr EXCEPT !.m[parent][index] =
                                     initTableEntry(a.table, TRUE)],
              table |-> a.table, ok |-> TRUE]
    ELSE IF dr.m[parent][index].type = 1
    THEN [dr |-> dr, table |-> getAddress(dr.m[parent][index]), ok |-> TRUE]
    ELSE [dr |-> dr, table |-> 0, ok |-> FALSE]

\* AArch64MMUDriver::allocatePageTable(PID)
allocatePageTable(dr, PID) ==
    LET l0Size == L0_ENTRIES * entrySize
        l0_table == allocateMemory(dr.m)
    IN  [dr EXCEPT !.m = newTable(@, l0_table, L0_ENTRIES),
                   !.bytesAllocated = @ + l0Size,
                   !.pageTables = mapPut(@, PID, l0_table)]

\* AArch64MMUDriver::getPageTable(PID)
getPageTable(tables, PID) ==
    IF PID \notin DOMAIN tables THEN 0 ELSE tables[PID]

\* (1UL << addressSpaceBits), the address space in units of 1 KiB
addressSpace ==
    L0_ENTRIES * L1_ENTRIES * L2_ENTRIES * L3_ENTRIES * aarch64PageSize

\* AArch64MMUDriver::setMapping(PID, vAddr, pPage) with pPage.addr = addr;
\* driverData is what it stores in pPage.driverData
setMapping(dr, PID, vAddr, addr) ==
    LET va == vAddr % addressSpace
        l0_idx == L0_INDEX(va)
        l1_idx == L1_INDEX(va)
        l2_idx == L2_INDEX(va)
        l3_idx == L3_INDEX(va)
        thrown(d) == [dr |-> d, ret |-> "throw", driverData |-> <<>>]
    IN  IF PID \notin DOMAIN dr.pageTables
        THEN thrown(dr)
        ELSE
        LET g1 == getOrCreateTable(dr, dr.pageTables[PID], l0_idx)
        IN  IF ~g1.ok THEN thrown(g1.dr) ELSE
        LET g2 == getOrCreateTable(g1.dr, g1.table, l1_idx)
        IN  IF ~g2.ok THEN thrown(g2.dr) ELSE
        LET g3 == getOrCreateTable(g2.dr, g2.table, l2_idx)
        IN  IF ~g3.ok THEN thrown(g3.dr) ELSE
            [dr |-> [g3.dr EXCEPT !.m[g3.table][l3_idx] =
                                     initTableEntry(addr, FALSE)],
             ret |-> "done", driverData |-> <<g3.table, l3_idx>>]

driver == [m |-> ptMem, pageTables |-> pageTables,
           bytesAllocated |-> bytesAllocated]

SetDriver(dr) ==
    /\ ptMem' = dr.m
    /\ pageTables' = dr.pageTables
    /\ bytesAllocated' = dr.bytesAllocated

\* the virtual addresses and handles the kernel gives the driver: two
\* pages that share their tables and one that shares two of them, an
\* address with a bit set above the
\* address space, and the page-aligned addresses of two physical pages
DriverPages == {pageOf(0, 0, 0, 0), pageOf(0, 0, 0, 1), pageOf(0, 1, 0, 0)}

DriverVAddrs ==
    {vPage * aarch64PageSize : vPage \in DriverPages}
        \cup {addressSpace + pageOf(0, 0, 0, 1) * aarch64PageSize}

HandleAddrs == {pPage * aarch64PageSize : pPage \in {1, MaxPPage}}

pageOfAddr(vAddr) == (vAddr % addressSpace) \div aarch64PageSize

\* the tables setMapping will ask the kernel for: one for each level below
\* the level at which a walk of the page finds no valid entry
tablesMissing(dr, PID, vAddr) ==
    IF PID \notin DOMAIN dr.pageTables
    THEN 0
    ELSE Max(0, 3 - walkTo(dr.m, dr.pageTables[PID], pageOfAddr(vAddr)).level)

\* AArch64MMUDriver() and setHostKernel(kernel); no MMU root yet
InitDriver ==
    /\ PmmIdle
    /\ TLBIdle
    /\ ATLBIdle
    /\ ExtIdle

AllocatePageTable ==
    /\ freeMemory(ptMem) # {}
    /\ \E PID \in PIDs :
          /\ SetDriver(allocatePageTable(driver, PID))
          /\ installed' = mapPut(installed, PID, <<>>)
          /\ ptOp' = [NoPtOp EXCEPT !.op = "allocatePageTable", !.pid = PID,
                                    !.ret = "done"]
    /\ UNCHANGED <<root, accVars, twoVars, lateVars,
                   pmmVars, callerVars, tlbAllVars,
                   atlbAllVars>>

SetMapping ==
    /\ \E PID \in PIDs, vAddr \in DriverVAddrs, addr \in HandleAddrs :
          LET r == setMapping(driver, PID, vAddr, addr)
          IN  /\ tablesMissing(driver, PID, vAddr)
                    <= Cardinality(freeMemory(ptMem))
              /\ SetDriver(r.dr)
              /\ installed' =
                    IF r.ret = "done"
                    THEN [installed EXCEPT ![PID] =
                             mapPut(@, pageOfAddr(vAddr), addr)]
                    ELSE installed
              /\ ptOp' = [NoPtOp EXCEPT !.op = "setMapping", !.pid = PID,
                                        !.ret = r.ret]
    /\ UNCHANGED <<root, accVars, twoVars, lateVars,
                   pmmVars, callerVars, tlbAllVars,
                   atlbAllVars>>

NextDriver == AllocatePageTable \/ SetMapping

SpecDriver == InitDriver /\ [][NextDriver]_vars

\* C26: once setMapping(pid, va, handle) has run after allocatePageTable(pid),
\* a walk of the page of va from the root of pid succeeds and yields
\* handle.addr >> pageBits, and goes on doing so whatever setMapping calls
\* follow for other pages of pid or for other processes.
C26_MappingRoundTrip ==
    \A PID \in DOMAIN installed : \A vPage \in DOMAIN installed[PID] :
        LET r == performTranslation(ptMem, getPageTable(pageTables, PID),
                                    vPage, FALSE)
        IN  /\ r.ret = "true"
            /\ r.pPage = installed[PID][vPage] \div aarch64PageSize

\* setMapping has just run for a process that holds another page already,
\* while another process holds a mapping too
C26_Witness ==
    /\ ptOp.op = "setMapping" /\ ptOp.ret = "done"
    /\ Cardinality(DOMAIN installed[ptOp.pid]) >= 2
    /\ \E PID \in DOMAIN installed \ {ptOp.pid} : installed[PID] # <<>>

\* C30: allocatePageTable(pid) for a process that has a page table fails:
\* it throws, getPageTable(pid) is the table recorded before, and the
\* memory of the tables is as it was.
C30_SecondAllocateFails ==
    [][(ptOp'.op = "allocatePageTable" /\ ptOp'.pid \in DOMAIN pageTables) =>
          /\ ptOp'.ret = "throw"
          /\ getPageTable(pageTables', ptOp'.pid) =
                getPageTable(pageTables, ptOp'.pid)
          /\ ptMem' = ptMem
          /\ bytesAllocated' = bytesAllocated]_vars

(***************************************************************************)
(* The whole life of the trees: the kernel allocates and releases page     *)
(* tables, maps pages through its PhysPage handles, switches their valid   *)
(* bit through the entry pointer setMapping left in the handle, and the    *)
(* MMU walks the trees.  kernel->releaseMemory frees the region, which     *)
(* allocateMemory may lend again.                                          *)
(***************************************************************************)
\* the calls of a run
MaxTreeCalls == 4

TreeCall == nTreeCalls < MaxTreeCalls /\ nTreeCalls' = nTreeCalls + 1

\* kernel->releaseMemory(table, size)
releaseMemory(m, table) == [a \in DOMAIN m \ {table} |-> m[a]]

RECURSIVE releasePageTableLevel(_, _, _)
RECURSIVE releaseChildren(_, _, _, _)

\* the loop of releasePageTableLevel over the entries from index i on
releaseChildren(m, table, level, i) ==
    LET numEntries == IF level = 0 THEN L0_ENTRIES ELSE L1_ENTRIES
    IN  IF i >= numEntries
        THEN <<>>
        ELSE (IF m[table][i].valid = 1 /\ m[table][i].type = 1
              THEN releasePageTableLevel(m, getAddress(m[table][i]),
                                         level + 1)
              ELSE <<>>)
             \o releaseChildren(m, table, level, i + 1)

\* AArch64MMUDriver::releasePageTableLevel(table, level): the calls of
\* kernel->releaseMemory it makes, in order
releasePageTableLevel(m, table, level) ==
    LET numEntries == IF level = 0 THEN L0_ENTRIES ELSE L1_ENTRIES
        tableSize == numEntries * entrySize
    IN  IF table = 0
        THEN <<>>
        ELSE (IF level < 3 THEN releaseChildren(m, table, level, 0)
                           ELSE <<>>)
             \o <<[table |-> table, size |-> tableSize]>>

RECURSIVE releaseAll(_, _)
releaseAll(m, freed) ==
    IF freed = <<>> THEN m
    ELSE releaseAll(releaseMemory(m, Head(freed).table), Tail(freed))

\* AArch64MMUDriver::releasePageTable(PID); freed is what it gave back
releasePageTable(dr, PID) ==
    IF PID \in DOMAIN dr.pageTables
    THEN LET freed == releasePageTableLevel(dr.m, dr.pageTables[PID], 0)
         IN  [dr |-> [dr EXCEPT !.m = releaseAll(@, freed),
                                !.pageTables = mapErase(@, PID)],
              freed |-> freed]
    ELSE [dr |-> dr, freed |-> <<>>]

\* setPageValid without its second check
setPageValid_unchecked(m, driverData, setting) ==
    IF driverData = <<>> \/ driverData[1] \notin DOMAIN m
    THEN {[m |-> m, ret |-> "throw"]}
    ELSE {[m |-> [m EXCEPT ![driverData[1]][driverData[2]].valid =
                                IF setting THEN 1 ELSE 0],
           ret |-> "done"]}

\* AArch64MMUDriver::setPageValid(pPage, setting) with pPage.driverData:
\* the outcomes it can have.  An entry pointer into a table that has been
\* released is dangling: the region holds a table lent later, whose entry
\* at that place is then read and written, or it holds no table, and then
\* the valid bit read is any bit and the write changes no table.
setPageValid(m, driverData, setting) ==
    IF driverData = <<>>
    THEN {[m |-> m, ret |-> "throw"]}
    ELSE LET table == driverData[1]
             idx == driverData[2]
         IN  IF table \notin DOMAIN m \/ idx \notin DOMAIN m[table]
             THEN {[m |-> m, ret |-> "done"]}
                     \cup (IF setting THEN {[m |-> m, ret |-> "throw"]}
                                      ELSE {})
             ELSE IF m[table][idx].valid = 0 /\ setting
             THEN {[m |-> m, ret |-> "throw"]}
             ELSE {[m |-> [m EXCEPT ![table][idx].valid =
                                        IF setting THEN 1 ELSE 0],
                    ret |-> "done"]}

\* the tables a call has asked the kernel for, with the size asked
tablesAdded(m, dr, size) ==
    {[table |-> t, size |-> size] : t \in DOMAIN dr.m \ DOMAIN m}

ownedBy(PID) == IF PID \in DOMAIN owned THEN owned[PID] ELSE {}

\* AArch64MMUDriver() and setHostKernel(kernel); the kernel holds handles
\* that no setMapping has seen
InitTree == InitDriver

\* the addresses of the pages the kernel maps
TreeVAddrs == {vPage * aarch64PageSize : vPage \in DriverPages}

TreeOthers == <<installed, accVars, twoVars, sortedVars, decVars,
                pmmVars, callerVars, tlbAllVars, atlbAllVars>>

TreeAllocatePageTable ==
    /\ TreeCall
    /\ freeMemory(ptMem) # {}
    /\ \E PID \in PIDs :
          LET dr == allocatePageTable(driver, PID)
          IN  /\ SetDriver(dr)
              /\ owned' = mapPut(owned, PID,
                                 ownedBy(PID) \cup
                                 tablesAdded(ptMem, dr,
                                             L0_ENTRIES * entrySize))
              /\ ptOp' = [NoPtOp EXCEPT !.op = "allocatePageTable",
                                        !.pid = PID, !.ret = "done"]
    /\ nRoots' = nRoots + 1
    /\ UNCHANGED <<root, handles, released, nNodes, TreeOthers>>

TreeSetMapping ==
    /\ TreeCall
    /\ \E PID \in PIDs, vAddr \in TreeVAddrs, h \in Handles :
          LET r == setMapping(driver, PID, vAddr, handles[h].addr)
              added == tablesAdded(ptMem, r.dr, L1_ENTRIES * entrySize)
          IN  /\ tablesMissing(driver, PID, vAddr)
                    <= Cardinality(freeMemory(ptMem))
              /\ SetDriver(r.dr)
              /\ handles' =
                    IF r.ret = "done"
                    THEN [handles EXCEPT ![h].driverData = r.driverData,
                                         ![h].pid = PID,
                                         ![h].vPage = pageOfAddr(vAddr)]
                    ELSE handles
              /\ owned' = IF added = {} THEN owned
                          ELSE mapPut(owned, PID, ownedBy(PID) \cup added)
              /\ nNodes' = nNodes + Cardinality(added)
              /\ ptOp' =
                    LET w == walkTo(ptMem, pageTables[PID],
                                    pageOfAddr(vAddr))
                        existed == PID \in DOMAIN pageTables /\ w.level >= 3
                    IN  [NoPtOp EXCEPT
                            !.op = "setMapping", !.pid = PID,
                            !.vPage = pageOfAddr(vAddr), !.handle = h,
                            !.pPage = handles[h].addr \div aarch64PageSize,
                            !.ret = r.ret, !.existed = existed,
                            !.old = IF existed THEN ptMem[w.table][w.idx]
                                    ELSE @]
    /\ UNCHANGED <<root, released, nRoots, TreeOthers>>

TreeSetPageValid ==
    /\ TreeCall
    /\ \E h \in Handles, setting \in BOOLEAN :
       \E r \in setPageValid(ptMem, handles[h].driverData, setting) :
          /\ ptMem' = r.m
          /\ ptOp' = [NoPtOp EXCEPT !.op = "setPageValid", !.handle = h,
                                    !.setting = setting, !.ret = r.ret]
    /\ UNCHANGED <<root, pageTables, bytesAllocated, handles, released, owned,
                   nRoots, nNodes, TreeOthers>>

TreeReleasePageTable ==
    /\ TreeCall
    /\ \E PID \in PIDs :
          LET r == releasePageTable(driver, PID)
          IN  /\ SetDriver(r.dr)
              /\ released' = r.freed
              /\ owned' = mapErase(owned, PID)
              /\ ptOp' = [NoPtOp EXCEPT !.op = "releasePageTable",
                                        !.pid = PID, !.ret = "done"]
    /\ UNCHANGED <<root, handles, nRoots, nNodes, TreeOthers>>

\* the MMU walks the tree of a process for a page: setPageTablePointer and
\* performTranslation
TreeTranslate ==
    /\ TreeCall
    /\ \E PID \in DOMAIN pageTables, vPage \in DriverPages,
          isWrite \in BOOLEAN :
          LET r == performTranslation(ptMem, pageTables[PID], vPage,
                                      isWrite)
          IN  /\ root' = pageTables[PID]
              /\ ptMem' = r.m
              /\ ptOp' = [NoPtOp EXCEPT !.op = "performTranslation",
                                        !.pid = PID, !.vPage = vPage,
                                        !.isWrite = isWrite,
                                        !.ret = r.ret, !.pPage = r.pPage]
    /\ UNCHANGED <<pageTables, bytesAllocated, handles, released, owned,
                   nRoots, nNodes, TreeOthers>>

NextTree ==
    \/ TreeAllocatePageTable
    \/ TreeSetMapping
    \/ TreeSetPageValid
    \/ TreeReleasePageTable
    \/ TreeTranslate

SpecTree == InitTree /\ [][NextTree]_vars

\* the entry a handle's driverData points to is the entry of level 3 that
\* a walk from the root of the handle's process reaches for its page
handleLive(m, tables, hd) ==
    /\ hd.driverData # <<>>
    /\ hd.pid \in DOMAIN tables
    /\ LET w == walkTo(m, tables[hd.pid], hd.vPage)
       IN  w.level >= 3 /\ hd.driverData = <<w.table, w.idx>>

\* the slots of a table that hold a valid entry
validSlots(m, table) ==
    {<<table, i>> : i \in {j \in DOMAIN m[table] : m[table][j].valid = 1}}

\* the tables of a process at a level, from its root down
RECURSIVE tablesAt(_, _, _)
tablesAt(m, rt, level) ==
    IF level = 0
    THEN {rt}
    ELSE {getAddress(m[s[1]][s[2]]) :
             s \in UNION {validSlots(m, t) :
                             t \in tablesAt(m, rt, level - 1)}}

\* the slots of the levels 0 to 2 of all trees that hold a valid entry
parentSlots(m, tables) ==
    UNION {UNION {validSlots(m, t) : t \in tablesAt(m, tables[pl[1]], pl[2])}
              : pl \in (DOMAIN tables) \X (0..2)}

\* C31: releasePageTable(pid) for a process that has a page table gives
\* back to the kernel the tables allocated for the process, each once and
\* with the size it was allocated with, and no table of another process,
\* and getPageTable(pid) is 0 afterwards.
C31_ReleaseReturnsTree ==
    [][(ptOp'.op = "releasePageTable" /\ ptOp'.pid \in DOMAIN pageTables) =>
          /\ Len(released') = Cardinality(ownedBy(ptOp'.pid))
          /\ {released'[i] : i \in DOMAIN released'} = ownedBy(ptOp'.pid)
          /\ \A PID \in DOMAIN owned \ {ptOp'.pid} :
                \A i \in DOMAIN released' :
                   released'[i].table \notin {o.table : o \in owned[PID]}
          /\ getPageTable(pageTables', ptOp'.pid) = 0]_vars

\* C32: setPageValid(handle, true) on an entry of a tree whose valid bit is
\* 0 throws and changes no table; setPageValid(handle, false) on an entry of
\* a tree clears its valid bit and nothing else, and a walk of the page then
\* fails; a valid bit goes from 0 to 1 by setMapping only.
C32_ValidateRejected ==
    [][/\ (ptOp'.op = "setPageValid"
           /\ handleLive(ptMem, pageTables, handles[ptOp'.handle])) =>
             LET hd == handles[ptOp'.handle]
                 table == hd.driverData[1]
                 idx == hd.driverData[2]
             IN  /\ (ptOp'.setting /\ ptMem[table][idx].valid = 0) =>
                       ptOp'.ret = "throw" /\ ptMem' = ptMem
                 /\ ~ptOp'.setting =>
                       /\ ptOp'.ret = "done"
                       /\ DOMAIN ptMem' = DOMAIN ptMem
                       /\ \A t \in DOMAIN ptMem : \A i \in DOMAIN ptMem[t] :
                             ptMem'[t][i] =
                                IF <<t, i>> = <<table, idx>>
                                THEN [ptMem[t][i] EXCEPT !.valid = 0]
                                ELSE ptMem[t][i]
                       /\ performTranslation(ptMem', pageTables[hd.pid],
                                             hd.vPage, FALSE).ret = "false"
       /\ (\E t \in DOMAIN ptMem \cap DOMAIN ptMem' :
              \E i \in DOMAIN ptMem[t] :
                 ptMem[t][i].valid = 0 /\ ptMem'[t][i].valid = 1) =>
             ptOp'.op = "setMapping"]_vars

\* setPageValid(handle, true) has been rejected for an entry that
\* setPageValid(handle, false) had invalidated
C32_Witness ==
    /\ ptOp.op = "setPageValid" /\ ptOp.setting /\ ptOp.ret = "throw"
    /\ handleLive(ptMem, pageTables, handles[ptOp.handle])
    /\ LET d == handles[ptOp.handle].driverData
       IN  ptMem[d[1]][d[2]].valid = 0 /\ ptMem[d[1]][d[2]].physicalPageNum # 0

\* C33: every tree of the driver is well formed: a valid entry of the
\* levels 0 to 2 is a table entry and points to a table of L1_ENTRIES
\* entries that the driver has allocated, a valid entry of level 3 is a
\* page entry, and no table is the root of two processes, the child of two
\* slots, or both a root and a child.
C33_TreesWellFormed ==
    /\ \A PID \in DOMAIN pageTables :
          /\ pageTables[PID] \in DOMAIN ptMem
          /\ \A level \in 0..2 :
                \A t \in tablesAt(ptMem, pageTables[PID], level) :
                   \A i \in DOMAIN ptMem[t] :
                      ptMem[t][i].valid = 1 =>
                         /\ ptMem[t][i].type = 1
                         /\ getAddress(ptMem[t][i]) \in DOMAIN ptMem
                         /\ DOMAIN ptMem[getAddress(ptMem[t][i])] =
                               0..(L1_ENTRIES - 1)
          /\ \A t \in tablesAt(ptMem, pageTables[PID], 3) :
                \A i \in DOMAIN ptMem[t] :
                   ptMem[t][i].valid = 1 => ptMem[t][i].type = 0
    /\ \A P1, P2 \in DOMAIN pageTables :
          P1 # P2 => pageTables[P1] # pageTables[P2]
    /\ \A s1, s2 \in parentSlots(ptMem, pageTables) :
          s1 # s2 => getAddress(ptMem[s1[1]][s1[2]]) #
                        getAddress(ptMem[s2[1]][s2[2]])
    /\ \A s \in parentSlots(ptMem, pageTables) :
          \A PID \in DOMAIN pageTables :
             getAddress(ptMem[s[1]][s[2]]) # pageTables[PID]

\* two processes hold a mapped page each
C33_Witness ==
    /\ Cardinality(DOMAIN pageTables) = 2
    /\ \A PID \in DOMAIN pageTables :
          \E vPage \in DriverPages :
             walkTo(ptMem, pageTables[PID], vPage).level = 4

\* C34: no handle that setMapping has stamped for a process points into a
\* table that is not one of the tables of that process; after
\* releasePageTable the handles stamped for the process point nowhere.
C34_NoHandleIntoReleasedTree ==
    \A h \in Handles :
       handles[h].driverData # <<>> =>
          handles[h].driverData[1] \in
             {o.table : o \in ownedBy(handles[h].pid)}

C36_RemapOverwrites ==
    [][(ptOp'.op = "setMapping" /\ ptOp'.ret = "done"
        /\ walkTo(ptMem, pageTables[ptOp'.pid], ptOp'.vPage).level >= 3) =>
          LET w == walkTo(ptMem, pageTables[ptOp'.pid], ptOp'.vPage)
              pPage == handles[ptOp'.handle].addr \div aarch64PageSize
              r == performTranslation(ptMem', pageTables'[ptOp'.pid],
                                      ptOp'.vPage, FALSE)
          IN  /\ ptMem'[w.table][w.idx] =
                    SimpleTableEntry(1, 0, pPage, 0, 0)
              /\ handles'[ptOp'.handle].driverData = <<w.table, w.idx>>
              /\ r.ret = "true" /\ r.pPage = pPage]_vars

\* setMapping has overwritten an entry that was dirty, or one that
\* setPageValid had invalidated
C36_Witness ==
    /\ ptOp.op = "setMapping" /\ ptOp.ret = "done" /\ ptOp.existed
    /\ ptOp.old.dirty = 1
    /\ ptOp.old.physicalPageNum # ptOp.pPage

(***************************************************************************)
(* The decomposition of a virtual address into the four table indices, as  *)
(* AArch64MMUDriver::setMapping does it and as MMU::getTranslation and     *)
(* AArch64MMU::performTranslation do it between them.                      *)
(***************************************************************************)
\* setMapping: the mask and the four indices
indicesOfDriver(vAddr) ==
    LET va == vAddr % addressSpace
    IN  [l0 |-> L0_INDEX(va), l1 |-> L1_INDEX(va), l2 |-> L2_INDEX(va),
         l3 |-> L3_INDEX(va)]

\* getTranslation: the mask and the page number; performTranslation: the
\* address of the page and the four indices
indicesOfWalker(addr) ==
    LET vPage == (addr % addressSpace) \div aarch64PageSize
        vAddr == vPage * aarch64PageSize
    IN  [l0 |-> L0_INDEX(vAddr), l1 |-> L1_INDEX(vAddr),
         l2 |-> L2_INDEX(vAddr), l3 |-> L3_INDEX(vAddr)]

\* the addresses decomposed: the first, the second and the last KiB of
\* every page, with the two bits above the address space at any value
DecAddrs ==
    {k * addressSpace + vPage * aarch64PageSize + offset :
        k \in 0..3,
        vPage \in 0..(addressSpace \div aarch64PageSize - 1),
        offset \in {0, 1, aarch64PageSize - 1}}

InitDecode ==
    /\ PmmIdle
    /\ TLBIdle
    /\ ATLBIdle
    /\ ExtIdle

Decode ==
    /\ ~dec.done
    /\ \E vAddr \in DecAddrs :
          dec' = [vAddr |-> vAddr, done |-> TRUE,
                  driver |-> indicesOfDriver(vAddr),
                  walker |-> indicesOfWalker(vAddr)]
    /\ UNCHANGED <<pmmVars, callerVars, tlbAllVars, atlbAllVars, twoVars,
                   ptAllVars, treeVars, sortedVars>>

NextDecode == Decode

SpecDecode == InitDecode /\ [][NextDecode]_vars

\* C37: the indices of an address are below L0_ENTRIES and L1_ENTRIES to
\* L3_ENTRIES; with the offset in the page they make up the address
\* masked to the address space; the walker takes the same indices as
\* setMapping; two addresses whose masked page numbers differ differ in an
\* index, and an address with other bits above the address space has the
\* same indices.
C37_AddressDecomposition ==
    dec.done =>
       LET masked == dec.vAddr % addressSpace
           d == dec.driver
       IN  /\ d.l0 \in 0..(L0_ENTRIES - 1)
           /\ d.l1 \in 0..(L1_ENTRIES - 1)
           /\ d.l2 \in 0..(L2_ENTRIES - 1)
           /\ d.l3 \in 0..(L3_ENTRIES - 1)
           /\ (((d.l0 * L1_ENTRIES + d.l1) * L2_ENTRIES + d.l2)
                  * L3_ENTRIES + d.l3) * aarch64PageSize
                 + (masked % aarch64PageSize) = masked
           /\ dec.walker = d
           /\ \A other \in DecAddrs :
                 /\ pageOfAddr(other) # pageOfAddr(dec.vAddr) =>
                       indicesOfDriver(other) # d
                 /\ other % addressSpace = masked =>
                       /\ indicesOfDriver(other) = d
                       /\ indicesOfWalker(other) = d

\* an address with a bit set above the address space, in the last page
C37_Witness ==
    /\ dec.done
    /\ dec.vAddr >= addressSpace
    /\ dec.driver = [l0 |-> L0_ENTRIES - 1, l1 |-> L1_ENTRIES - 1,
                     l2 |-> L2_ENTRIES - 1, l3 |-> L3_ENTRIES - 1]

(***************************************************************************)
(* The PhysMemManager of phys_mem_manager.h: a list of MemoryHole kept in  *)
(* the order of the addresses.  The memory of the one hole it starts with  *)
(* is scaled down to MaxHole units.                                        *)
(***************************************************************************)
MaxHole == 4

MemoryHole(start, size) == [start |-> start, size |-> size]

\* PhysMemManager::PhysMemManager()
sortedConstruct == <<MemoryHole(0, MaxHole)>>

\* PhysMemManager::allocate(size)
allocate(hs, size) ==
    LET fits == {i \in 1..Len(hs) : hs[i].size >= size}
        it == MinOf(fits)
    IN  IF fits = {}
        THEN [holes |-> hs, ret |-> "throw", address |-> 0]
        ELSE [holes |-> IF hs[it].size > size
                        THEN [hs EXCEPT ![it] =
                                 MemoryHole(@.start + size, @.size - size)]
                        ELSE RemoveAt(hs, it),
              ret |-> "done", address |-> hs[it].start]

\* what the list can be after the end iterator has been used as an
\* element (std::next(holes.end()), holes.erase(holes.end())): the end of
\* a std::list is the node before its first element, so the list is as it
\* was or has lost its first hole
pastTheEnd(hs) == {hs, Tail(hs)}

\* PhysMemManager::release(address, size): the lists it can leave.  `it`
\* stays on the hole behind the place of insertion (position k + 1, or the
\* end), the iterator that insert() returns is not used; prev is the hole
\* just inserted.
release(hs, address, size) ==
    LET behind == {i \in 1..Len(hs) : hs[i].start > address}
        k == IF behind = {} THEN Len(hs) + 1 ELSE MinOf(behind)
        inserted == SubSeq(hs, 1, k - 1) \o <<MemoryHole(address, size)>>
                       \o SubSeq(hs, k, Len(hs))
        prev == k
        mergePrev == inserted[prev].start + inserted[prev].size = address
        afterPrev == IF mergePrev THEN RemoveAt(inserted, k + 1)
                     ELSE inserted
        it == IF mergePrev THEN prev ELSE k + 1
        next == it + 1
    IN  IF mergePrev /\ k + 1 > Len(inserted)
        THEN pastTheEnd(inserted)
        ELSE IF it > Len(afterPrev)
        THEN pastTheEnd(afterPrev)
        ELSE IF next <= Len(afterPrev)
                /\ afterPrev[it].start + afterPrev[it].size =
                      afterPrev[next].start
        THEN {RemoveAt([afterPrev EXCEPT ![it].size =
                           @ + afterPrev[next].size], next)}
        ELSE {afterPrev}

\* the sizes the caller asks for
HoleSizes == 1..MaxHole

InitSorted ==
    /\ PmmIdle
    /\ TLBIdle
    /\ ATLBIdle
    /\ TwoIdle /\ PtIdle /\ DrvIdle /\ AccIdle
    /\ TreeIdle /\ DecIdle
    /\ freeList = sortedConstruct
    /\ held = {}
    /\ freeOp = NoFreeOp

SortedOthers == <<pmmVars, callerVars, tlbAllVars, atlbAllVars, twoVars,
                  ptAllVars, treeVars, decVars>>

SortedAllocate ==
    /\ \E size \in HoleSizes :
          LET r == allocate(freeList, size)
          IN  /\ freeList' = r.holes
              /\ held' = IF r.ret = "done"
                         THEN held \cup {[address |-> r.address,
                                          size |-> size]}
                         ELSE held
              /\ freeOp' = [op |-> "allocate", address |-> r.address,
                            size |-> size, ret |-> r.ret]
    /\ UNCHANGED SortedOthers

\* the caller releases one of its allocations
SortedRelease ==
    /\ \E a \in held :
          /\ \E hs \in release(freeList, a.address, a.size) :
                freeList' = hs
          /\ held' = held \ {a}
          /\ freeOp' = [op |-> "release", address |-> a.address,
                        size |-> a.size, ret |-> "done"]
    /\ UNCHANGED SortedOthers

NextSorted == SortedAllocate \/ SortedRelease

SpecSorted == InitSorted /\ [][NextSorted]_vars

\* C38: the holes are in the order of their addresses and no hole ends
\* where the next one starts, after any allocate and any release of an
\* allocation.
C38_NoAdjacentHoles ==
    \A i \in 1..(Len(freeList) - 1) :
       /\ freeList[i].start < freeList[i + 1].start
       /\ freeList[i].start + freeList[i].size # freeList[i + 1].start

(***************************************************************************)
(* MMU::processMemAccess on an AArch64MMU with its TLB, for one process    *)
(* whose page table the driver has allocated.  The call is a loop, so it   *)
(* takes a step per getTranslation and a step per call of the page-fault   *)
(* handler.  The handler is the kernel's: it maps the faulting address in  *)
(* the tree of the running process with setMapping.                        *)
(***************************************************************************)
MemAccessTypes == {"Load", "Store", "Modify", "Execute"}

AccessPages == {pageOf(0, 0, 0, 0), pageOf(0, 0, 0, 1)}

AccessAddrs == {vPage * aarch64PageSize : vPage \in AccessPages}

\* the process that runs
runningPID == 1

\* if (root == 0x0) throw
rootIsNull_never(rt) == FALSE

rootIsNull(rt) == rt = 0

\* isWrite of MMU::getTranslation
isWriteAccess(type) == type = "Store" \/ type = "Modify"

\* MMU::getTranslation(access, pAddr) on the TLB (s, t), the table memory m
\* and the root rt
getTranslation(s, t, m, rt, addr, type) ==
    LET vAddr == addr % addressSpace
        vPage == vAddr \div aarch64PageSize
        isWrite == isWriteAccess(type)
        l == lookup(s, t, vPage)
        w == performTranslation(m, rt, vPage, isWrite)
        a == add(l.s, l.t, vPage, w.pPage)
    IN  IF l.hit
        THEN [s |-> l.s, t |-> l.t, m |-> m, ret |-> TRUE, hit |-> TRUE,
              pPage |-> l.pPage]
        ELSE IF w.ret = "true"
        THEN [s |-> a.s, t |-> a.t, m |-> w.m, ret |-> TRUE, hit |-> FALSE,
              pPage |-> w.pPage]
        ELSE [s |-> l.s, t |-> l.t, m |-> w.m, ret |-> FALSE, hit |-> FALSE,
              pPage |-> NoPage]

\* the driver has allocated the page table of the running process; the MMU
\* has no page-table pointer yet
InitAccess ==
    /\ PmmIdle
    /\ TLBIdle
    /\ ATLBIdle
    /\ TwoIdle
    /\ AccIdle
    /\ LateIdle
    /\ root = 0
    /\ ptOp = NoPtOp
    /\ LET dr == allocatePageTable([m |-> <<>>, pageTables |-> <<>>,
                                    bytesAllocated |-> 0], runningPID)
       IN  /\ ptMem = dr.m
           /\ pageTables = dr.pageTables
           /\ bytesAllocated = dr.bytesAllocated
    /\ installed = <<>>

accOthers == <<twoVars, lateVars, pmmVars, callerVars,
               atlbAllVars, tlbCallerVars,
               tlbHistoryVars, mmu, ptOp, installed>>

\* mmu.setPageTablePointer(driver.getPageTable(PID)), between two accesses;
\* a process without a page table gives the null pointer
AccSetRoot ==
    /\ acc.pc = "idle"
    /\ \E PID \in PIDs : root' = getPageTable(pageTables, PID)
    /\ UNCHANGED <<acc, ptMem, pageTables, bytesAllocated, tlbStatics, tlb,
                   accOthers>>

\* MMU::processMemAccess(access) is called: the null check
AccStart ==
    /\ acc.pc = "idle"
    /\ acc.n < MaxAccesses
    /\ \E addr \in AccessAddrs, type \in MemAccessTypes :
          acc' = [pc |-> IF rootIsNull(root) THEN "fatal" ELSE "translating",
                  addr |-> addr, type |-> type, hit |-> FALSE,
                  faulted |-> FALSE, n |-> acc.n + 1]
    /\ UNCHANGED <<root, ptMem, pageTables, bytesAllocated, tlbStatics, tlb,
                   accOthers>>

\* the loop condition: one call of getTranslation
AccTranslate ==
    /\ acc.pc = "translating"
    /\ LET r == getTranslation(tlbStatics, tlb, ptMem, root, acc.addr,
                               acc.type)
       IN  /\ tlbStatics' = r.s
           /\ tlb' = r.t
           /\ ptMem' = r.m
           /\ acc' = [acc EXCEPT !.pc = IF r.ret THEN "done" ELSE "faulting",
                                 !.hit = r.hit]
    /\ UNCHANGED <<root, pageTables, bytesAllocated, accOthers>>

\* the loop body: pageFaultHandler(access.addr) maps the address to some
\* physical page in the tree of the running process
AccFault ==
    /\ acc.pc = "faulting"
    /\ \E addr \in HandleAddrs :
          LET r == setMapping(driver, runningPID, acc.addr, addr)
          IN  SetDriver(r.dr)
    /\ acc' = [acc EXCEPT !.pc = "translating", !.faulted = TRUE]
    /\ UNCHANGED <<root, tlbStatics, tlb, accOthers>>

\* processMemAccess returns, or its exception has reached the caller
AccReturn ==
    /\ acc.pc \in {"done", "fatal"}
    /\ acc' = [acc EXCEPT !.pc = "idle"]
    /\ UNCHANGED <<root, ptMem, pageTables, bytesAllocated, tlbStatics, tlb,
                   accOthers>>

NextAccess == AccSetRoot \/ AccStart \/ AccTranslate \/ AccFault \/ AccReturn

SpecAccess == InitAccess /\ [][NextAccess]_vars

\* processMemAccess runs to its end once called: the loop goes on
SpecAccessFair ==
    SpecAccess /\ WF_vars(AccTranslate) /\ WF_vars(AccFault)

accessPage == (acc.addr % addressSpace) \div aarch64PageSize

\* C27: a processMemAccess that has passed the null check comes to its end,
\* given that each call of the page-fault handler maps the faulting page in
\* the tree at the root; the handler runs only after a getTranslation whose
\* walk failed, and after the handler comes another getTranslation, which
\* succeeds.
C27_AccessTerminates ==
    /\ (acc.pc = "translating") ~> (acc.pc = "done")
    /\ [][/\ acc'.pc = "faulting" =>
                /\ acc.pc = "translating"
                /\ walkTo(ptMem, root, accessPage).level < 4
          /\ acc.pc = "faulting" => acc'.pc = "translating"
          /\ (acc.pc = "translating" /\ acc.faulted) =>
                acc'.pc = "done"]_vars

\* an access has ended after its handler ran
C27_Witness == acc.pc = "done" /\ acc.faulted

\* C28: processMemAccess with a null page-table pointer ends in the fatal
\* error at once: no lookup, walk or handler call has run, the TLB's
\* entries and counters and the tables are as they were.
C28_NullRootIsFatal ==
    [][/\ (acc.pc = "idle" /\ acc'.pc # "idle" /\ root = 0) =>
             /\ acc'.pc = "fatal"
             /\ tlbStatics' = tlbStatics /\ tlb' = tlb /\ ptMem' = ptMem
       /\ acc.pc = "fatal" =>
             /\ acc'.pc = "idle"
             /\ tlbStatics' = tlbStatics /\ tlb' = tlb /\ ptMem' = ptMem
       /\ acc'.pc \in {"translating", "faulting", "done"} => root # 0]_vars

\* the fatal error, after the TLB has been filled by an earlier access
C28_Witness ==
    /\ acc.pc = "fatal" /\ root = 0
    /\ tlb.nLookups > 0
    /\ ValidSlots(tlbStatics) # {}

\* C29: when processMemAccess has completed an access to page v, the entry
\* of level 3 for v under the root has referenced = 1, and dirty = 1 when
\* the access was a Store or a Modify, whether the TLB or the walk served
\* it.
C29_LeafMarkedAfterAccess ==
    acc.pc = "done" =>
        /\ walkTo(ptMem, root, accessPage).level = 4
        /\ entry3(ptMem, root, accessPage).referenced = 1
        /\ acc.type \in {"Store", "Modify"} =>
              entry3(ptMem, root, accessPage).dirty = 1

(***************************************************************************)
(* The kernel at work between two memory accesses: it maps a page of the   *)
(* running process to the page of one of its handles and switches the      *)
(* valid bit of a mapped page off.  Neither call flushes the TLB.          *)
(***************************************************************************)
CohOthers == <<twoVars, sortedVars, decVars, pmmVars, callerVars,
               atlbAllVars, tlbAllVars, root, acc, ptOp, installed,
               released, owned, nRoots, nNodes, nTreeCalls>>

\* driver.setMapping(pid, vAddr, handle) for the running process
CohSetMapping ==
    /\ acc.pc = "idle"
    /\ \E vAddr \in AccessAddrs, h \in Handles :
          LET r == setMapping(driver, runningPID, vAddr, handles[h].addr)
          IN  /\ tablesMissing(driver, runningPID, vAddr)
                    <= Cardinality(freeMemory(ptMem))
              /\ SetDriver(r.dr)
              /\ handles' = [handles EXCEPT
                                ![h].driverData = r.driverData,
                                ![h].pid = runningPID,
                                ![h].vPage = pageOfAddr(vAddr)]
    /\ UNCHANGED CohOthers

\* driver.setPageValid(handle, false)
CohSetPageValid ==
    /\ acc.pc = "idle"
    /\ \E h \in Handles :
       \E r \in setPageValid(ptMem, handles[h].driverData, FALSE) :
          ptMem' = r.m
    /\ UNCHANGED <<pageTables, bytesAllocated, handles, CohOthers>>

NextCoherence == NextAccess \/ CohSetMapping \/ CohSetPageValid

SpecCoherence == InitAccess /\ [][NextCoherence]_vars

\* C40: when getTranslation returns true for an access to page v, the tree
\* at the root holds a valid entry of level 3 for v, and the physical page
\* returned is the page of that entry.
C40_TLBCoherent ==
    [][(acc.pc = "translating" /\ acc'.pc = "done") =>
          LET r == getTranslation(tlbStatics, tlb, ptMem, root, acc.addr,
                                  acc.type)
              w == walkTo(ptMem', root, accessPage)
          IN  /\ w.level = 4
              /\ ptMem'[w.table][w.idx].physicalPageNum = r.pPage]_vars

=============================================================================
